---- MODULE Spec2Model ----
(***************************************************************************)
(* GeoPulse stream processor: per-zone event-time sliding windows, the     *)
(* hysteretic state machine with confirmation timers, and the emitter      *)
(* (alert publish, materialized-state write) driven by the Kafka consumer. *)
(*                                                                         *)
(* Numbers.  Loads and averages are JavaScript doubles in the source.      *)
(* Here a load is an integer number of hundredths (75 stands for 0.75) and *)
(* an average is the exact fraction totalSum / totalCount, kept as a       *)
(* reduced pair [num, den]; thresholds are hundredths too.  Timestamps are *)
(* integer milliseconds.  A nullable number (number | null) is the empty   *)
(* sequence for null and the one-element sequence <<v>> for the value v.   *)
(***************************************************************************)
EXTENDS Integers, Sequences, FiniteSets, TLC

\* ------------------------------------------------------------------ bounds

\* Number of messages the consumer hands to the processor in one run.
MaxEvents == 5

\* ------------------------------------------------------- program constants

THRESHOLD_STRESSED == 75
THRESHOLD_CRITICAL_1M == 90
THRESHOLD_CRITICAL_TO_STRESSED == 80
THRESHOLD_STRESSED_TO_NORMAL == 65
CONFIRMATION_STRESSED_MS == 60000
CONFIRMATION_CRITICAL_MS == 20000
WINDOW_1M_SECONDS == 60
WINDOW_5M_SECONDS == 300
ALERT_GUARD_MS == 1000
MS_PER_SECOND == 1000

\* ------------------------------------------------------------------ inputs

\* The zone whose events the runs of Spec carry.
Zones == {"Z-1"}

\* Event timestamps (ms): 0 -> 60000 is exactly the STRESSED confirmation
\* time and exactly the 1-minute window, 60000 -> 80000 exactly the CRITICAL
\* confirmation time, 60000 -> 360000 exactly the 5-minute window.
Times == {0, 60000, 80000, 360000}

\* Loads in hundredths.
Loads == {0, 100}

\* (latitude, longitude) carried by an event.
Coords == {<<28, 77>>}

ZoneStateValues == {"NORMAL", "STRESSED", "CRITICAL"}

\* ---------------------------------------------------------------- nullable

Null == <<>>

Some(v) == <<v>>

IsNull(x) == x = <<>>

Val(x) == x[1]

\* ------------------------------------------------------------------- state

VARIABLES
    zoneStates,        \* StreamProcessor.zoneStates: zoneId -> ZoneStateData
    zoneCoordinates,   \* StreamProcessor.zoneCoordinates: zoneId -> coordinates
    eventCounter,      \* StreamProcessor.eventCounter
    pc,                \* where the in-flight eachMessage call is suspended
    cur,               \* locals of the in-flight handleEvent call
    alertLog,          \* alerts handed to emitAlert (the local log), in order
    published,         \* messages accepted by the zone.alerts topic, in order
    redisHash,         \* Redis: zoneId -> the zone:<zoneId> hash
    redisGeo,          \* Redis: zones:geo, zoneId -> (longitude, latitude)
    offset,            \* number of eachMessage calls that have resolved
    replay,            \* a second processor fed the same ordered stream from a
                       \* fresh state, every handleEvent run to its end
    sm                 \* StateMachine driven directly with averages: the
                       \* stateData it mutates and the calls made so far

vars == <<zoneStates, zoneCoordinates, eventCounter, pc, cur, alertLog,
          published, redisHash, redisGeo, offset, replay, sm>>

\* ----------------------------------------------------------- window manager

RECURSIVE SumOf(_, _)
SumOf(f, S) ==
    IF S = {} THEN 0
    ELSE LET k == CHOOSE x \in S : TRUE
         IN f[k] + SumOf(f, S \ {k})

RECURSIVE Gcd(_, _)
Gcd(a, b) == IF b = 0 THEN a ELSE Gcd(b, a % b)

CreateWindow == [buckets |-> <<>>, totalSum |-> 0, totalCount |-> 0]

\* Mutant: the totals are not decremented for the evicted buckets.
EvictKeepsTotals(window, currentSecond, windowSizeSeconds) ==
    LET expirationThreshold == currentSecond - windowSizeSeconds
        expired == {ts \in DOMAIN window.buckets : ts <= expirationThreshold}
    IN [window EXCEPT
            !.buckets = [ts \in (DOMAIN window.buckets) \ expired |-> window.buckets[ts]]]

\* Mutant: a bucket exactly windowSizeSeconds old is kept (< for <=).
EvictStrictlyOlder(window, currentSecond, windowSizeSeconds) ==
    LET expirationThreshold == currentSecond - windowSizeSeconds
        expired == {ts \in DOMAIN window.buckets : ts < expirationThreshold}
        sums == [ts \in expired |-> window.buckets[ts].sum]
        counts == [ts \in expired |-> window.buckets[ts].count]
    IN [buckets |-> [ts \in (DOMAIN window.buckets) \ expired |-> window.buckets[ts]],
        totalSum |-> window.totalSum - SumOf(sums, expired),
        totalCount |-> window.totalCount - SumOf(counts, expired)]

\* Mutant: buckets windowSizeSeconds or more away from the current second on
\* either side are removed, the newer ones too.
EvictFarFromCurrent(window, currentSecond, windowSizeSeconds) ==
    LET expired == {ts \in DOMAIN window.buckets :
                        \/ ts <= currentSecond - windowSizeSeconds
                        \/ ts >= currentSecond + windowSizeSeconds}
        sums == [ts \in expired |-> window.buckets[ts].sum]
        counts == [ts \in expired |-> window.buckets[ts].count]
    IN [buckets |-> [ts \in (DOMAIN window.buckets) \ expired |-> window.buckets[ts]],
        totalSum |-> window.totalSum - SumOf(sums, expired),
        totalCount |-> window.totalCount - SumOf(counts, expired)]

EvictExpiredBuckets(window, currentSecond, windowSizeSeconds) ==
    LET expirationThreshold == currentSecond - windowSizeSeconds
        expired == {ts \in DOMAIN window.buckets : ts <= expirationThreshold}
        sums == [ts \in expired |-> window.buckets[ts].sum]
        counts == [ts \in expired |-> window.buckets[ts].count]
    IN [buckets |-> [ts \in (DOMAIN window.buckets) \ expired |-> window.buckets[ts]],
        totalSum |-> window.totalSum - SumOf(sums, expired),
        totalCount |-> window.totalCount - SumOf(counts, expired)]

\* Mutant: an event older than the newest bucket is added to the newest
\* bucket instead of the bucket of its own second.
AddEventToNewestBucket(window, timestamp, load, windowSizeSeconds) ==
    LET own == timestamp \div MS_PER_SECOND
        w == EvictExpiredBuckets(window, own, windowSizeSeconds)
        newer == {ts \in DOMAIN w.buckets : ts > own}
        secondTimestamp ==
            IF newer = {} THEN own
            ELSE CHOOSE ts \in newer : \A other \in newer : other <= ts
        bucket == IF secondTimestamp \in DOMAIN w.buckets
                  THEN w.buckets[secondTimestamp]
                  ELSE [timestamp |-> secondTimestamp, sum |-> 0, count |-> 0]
        updated == [bucket EXCEPT !.sum = @ + load, !.count = @ + 1]
    IN [buckets |-> [ts \in (DOMAIN w.buckets) \cup {secondTimestamp} |->
                        IF ts = secondTimestamp THEN updated ELSE w.buckets[ts]],
        totalSum |-> w.totalSum + load,
        totalCount |-> w.totalCount + 1]

\* Mutant: an event whose second is already outside the window of the newest
\* bucket is dropped.
AddEventDropsLate(window, timestamp, load, windowSizeSeconds) ==
    LET secondTimestamp == timestamp \div MS_PER_SECOND
        w == EvictExpiredBuckets(window, secondTimestamp, windowSizeSeconds)
        bucket == IF secondTimestamp \in DOMAIN w.buckets
                  THEN w.buckets[secondTimestamp]
                  ELSE [timestamp |-> secondTimestamp, sum |-> 0, count |-> 0]
        updated == [bucket EXCEPT !.sum = @ + load, !.count = @ + 1]
    IN IF \E ts \in DOMAIN w.buckets : secondTimestamp <= ts - windowSizeSeconds
       THEN w
       ELSE [buckets |-> [ts \in (DOMAIN w.buckets) \cup {secondTimestamp} |->
                            IF ts = secondTimestamp THEN updated ELSE w.buckets[ts]],
             totalSum |-> w.totalSum + load,
             totalCount |-> w.totalCount + 1]

AddEvent(window, timestamp, load, windowSizeSeconds) ==
    LET secondTimestamp == timestamp \div MS_PER_SECOND
        w == EvictExpiredBuckets(window, secondTimestamp, windowSizeSeconds)
        bucket == IF secondTimestamp \in DOMAIN w.buckets
                  THEN w.buckets[secondTimestamp]
                  ELSE [timestamp |-> secondTimestamp, sum |-> 0, count |-> 0]
        updated == [bucket EXCEPT !.sum = @ + load, !.count = @ + 1]
    IN [buckets |-> [ts \in (DOMAIN w.buckets) \cup {secondTimestamp} |->
                        IF ts = secondTimestamp THEN updated ELSE w.buckets[ts]],
        totalSum |-> w.totalSum + load,
        totalCount |-> w.totalCount + 1]

\* Mutant: the average of the newest bucket stands in for the window's.
CalculateAverageOfNewestBucket(window) ==
    IF window.totalCount = 0 THEN [num |-> 0, den |-> 1]
    ELSE LET newest == CHOOSE ts \in DOMAIN window.buckets :
                            \A other \in DOMAIN window.buckets : other <= ts
             b == window.buckets[newest]
             g == Gcd(IF b.sum < 0 THEN -b.sum ELSE b.sum, b.count)
         IN [num |-> b.sum \div g, den |-> b.count \div g]

\* Mutant: the division is done without the guard on totalCount, so the
\* empty window yields 0/0 (NaN).
CalculateAverageUnguarded(window) ==
    [num |-> window.totalSum, den |-> window.totalCount]

\* The average as an exact fraction of hundredths; 0 for the empty window.
CalculateAverage(window) ==
    IF window.totalCount = 0 THEN [num |-> 0, den |-> 1]
    ELSE LET g == Gcd(IF window.totalSum < 0 THEN -window.totalSum ELSE window.totalSum,
                      window.totalCount)
         IN [num |-> window.totalSum \div g, den |-> window.totalCount \div g]

\* avg >= threshold and avg <= threshold, for a threshold in hundredths.
AvgGE(avg, threshold) == avg.num >= threshold * avg.den

AvgLE(avg, threshold) == avg.num <= threshold * avg.den

\* ------------------------------------------------------------ state machine

\* Mutant: the confirmation time must be exceeded (> for >=).
EvaluateNormalStrictlyLater(avg5m, currentTimestamp, stateData) ==
    IF AvgGE(avg5m, THRESHOLD_STRESSED)
    THEN LET since == IF IsNull(stateData.stressedSince)
                      THEN currentTimestamp
                      ELSE Val(stateData.stressedSince)
         IN IF currentTimestamp - since > CONFIRMATION_STRESSED_MS
            THEN [next |-> "STRESSED",
                  data |-> [stateData EXCEPT !.stressedSince = Null]]
            ELSE [next |-> "NORMAL",
                  data |-> [stateData EXCEPT !.stressedSince = Some(since)]]
    ELSE [next |-> "NORMAL", data |-> [stateData EXCEPT !.stressedSince = Null]]

\* Mutant: a condition-breaking event leaves the timer running.
EvaluateNormalKeepsTimer(avg5m, currentTimestamp, stateData) ==
    IF AvgGE(avg5m, THRESHOLD_STRESSED)
    THEN LET since == IF IsNull(stateData.stressedSince)
                      THEN currentTimestamp
                      ELSE Val(stateData.stressedSince)
         IN IF currentTimestamp - since >= CONFIRMATION_STRESSED_MS
            THEN [next |-> "STRESSED",
                  data |-> [stateData EXCEPT !.stressedSince = Null]]
            ELSE [next |-> "NORMAL",
                  data |-> [stateData EXCEPT !.stressedSince = Some(since)]]
    ELSE [next |-> "NORMAL", data |-> stateData]

\* Mutant: a confirmed overload takes the zone straight to CRITICAL.
EvaluateNormalSkipsStressed(avg5m, currentTimestamp, stateData) ==
    IF AvgGE(avg5m, THRESHOLD_STRESSED)
    THEN LET since == IF IsNull(stateData.stressedSince)
                      THEN currentTimestamp
                      ELSE Val(stateData.stressedSince)
         IN IF currentTimestamp - since >= CONFIRMATION_STRESSED_MS
            THEN [next |-> "CRITICAL",
                  data |-> [stateData EXCEPT !.stressedSince = Null]]
            ELSE [next |-> "NORMAL",
                  data |-> [stateData EXCEPT !.stressedSince = Some(since)]]
    ELSE [next |-> "NORMAL", data |-> [stateData EXCEPT !.stressedSince = Null]]

EvaluateNormalState(avg5m, currentTimestamp, stateData) ==
    IF AvgGE(avg5m, THRESHOLD_STRESSED)
    THEN LET since == IF IsNull(stateData.stressedSince)
                      THEN currentTimestamp
                      ELSE Val(stateData.stressedSince)
         IN IF currentTimestamp - since >= CONFIRMATION_STRESSED_MS
            THEN [next |-> "STRESSED",
                  data |-> [stateData EXCEPT !.stressedSince = Null]]
            ELSE [next |-> "NORMAL",
                  data |-> [stateData EXCEPT !.stressedSince = Some(since)]]
    ELSE [next |-> "NORMAL", data |-> [stateData EXCEPT !.stressedSince = Null]]

\* Mutant: recovery uses the upward threshold (no hysteresis band).
EvaluateStressedNoHysteresis(avg1m, avg5m, currentTimestamp, stateData) ==
    IF AvgGE(avg1m, THRESHOLD_CRITICAL_1M)
    THEN LET since == IF IsNull(stateData.criticalSince)
                      THEN currentTimestamp
                      ELSE Val(stateData.criticalSince)
         IN IF currentTimestamp - since >= CONFIRMATION_CRITICAL_MS
            THEN [next |-> "CRITICAL",
                  data |-> [stateData EXCEPT !.criticalSince = Null]]
            ELSE [next |-> "STRESSED",
                  data |-> [stateData EXCEPT !.criticalSince = Some(since)]]
    ELSE IF AvgLE(avg5m, THRESHOLD_STRESSED)
    THEN [next |-> "NORMAL",
          data |-> [stateData EXCEPT !.stressedSince = Null, !.criticalSince = Null]]
    ELSE [next |-> "STRESSED", data |-> [stateData EXCEPT !.criticalSince = Null]]

\* Mutant: the recovery rule is evaluated before the critical rule.
EvaluateStressedRecoveryFirst(avg1m, avg5m, currentTimestamp, stateData) ==
    IF AvgLE(avg5m, THRESHOLD_STRESSED_TO_NORMAL)
    THEN [next |-> "NORMAL",
          data |-> [stateData EXCEPT !.stressedSince = Null, !.criticalSince = Null]]
    ELSE IF AvgGE(avg1m, THRESHOLD_CRITICAL_1M)
    THEN LET since == IF IsNull(stateData.criticalSince)
                      THEN currentTimestamp
                      ELSE Val(stateData.criticalSince)
         IN IF currentTimestamp - since >= CONFIRMATION_CRITICAL_MS
            THEN [next |-> "CRITICAL",
                  data |-> [stateData EXCEPT !.criticalSince = Null]]
            ELSE [next |-> "STRESSED",
                  data |-> [stateData EXCEPT !.criticalSince = Some(since)]]
    ELSE [next |-> "STRESSED", data |-> [stateData EXCEPT !.criticalSince = Null]]

\* Mutant: the critical threshold is exclusive (avg1m > 0.90).
EvaluateStressedAboveThreshold(avg1m, avg5m, currentTimestamp, stateData) ==
    IF ~AvgLE(avg1m, THRESHOLD_CRITICAL_1M)
    THEN LET since == IF IsNull(stateData.criticalSince)
                      THEN currentTimestamp
                      ELSE Val(stateData.criticalSince)
         IN IF currentTimestamp - since >= CONFIRMATION_CRITICAL_MS
            THEN [next |-> "CRITICAL",
                  data |-> [stateData EXCEPT !.criticalSince = Null]]
            ELSE [next |-> "STRESSED",
                  data |-> [stateData EXCEPT !.criticalSince = Some(since)]]
    ELSE IF AvgLE(avg5m, THRESHOLD_STRESSED_TO_NORMAL)
    THEN [next |-> "NORMAL",
          data |-> [stateData EXCEPT !.stressedSince = Null, !.criticalSince = Null]]
    ELSE [next |-> "STRESSED", data |-> [stateData EXCEPT !.criticalSince = Null]]

\* Mutant: recovery to NORMAL leaves stressedSince as it was.
EvaluateStressedKeepsStressedSince(avg1m, avg5m, currentTimestamp, stateData) ==
    IF AvgGE(avg1m, THRESHOLD_CRITICAL_1M)
    THEN LET since == IF IsNull(stateData.criticalSince)
                      THEN currentTimestamp
                      ELSE Val(stateData.criticalSince)
         IN IF currentTimestamp - since >= CONFIRMATION_CRITICAL_MS
            THEN [next |-> "CRITICAL",
                  data |-> [stateData EXCEPT !.criticalSince = Null]]
            ELSE [next |-> "STRESSED",
                  data |-> [stateData EXCEPT !.criticalSince = Some(since)]]
    ELSE IF AvgLE(avg5m, THRESHOLD_STRESSED_TO_NORMAL)
    THEN [next |-> "NORMAL",
          data |-> [stateData EXCEPT !.criticalSince = Null]]
    ELSE [next |-> "STRESSED", data |-> [stateData EXCEPT !.criticalSince = Null]]

EvaluateStressedState(avg1m, avg5m, currentTimestamp, stateData) ==
    IF AvgGE(avg1m, THRESHOLD_CRITICAL_1M)
    THEN LET since == IF IsNull(stateData.criticalSince)
                      THEN currentTimestamp
                      ELSE Val(stateData.criticalSince)
         IN IF currentTimestamp - since >= CONFIRMATION_CRITICAL_MS
            THEN [next |-> "CRITICAL",
                  data |-> [stateData EXCEPT !.criticalSince = Null]]
            ELSE [next |-> "STRESSED",
                  data |-> [stateData EXCEPT !.criticalSince = Some(since)]]
    ELSE IF AvgLE(avg5m, THRESHOLD_STRESSED_TO_NORMAL)
    THEN [next |-> "NORMAL",
          data |-> [stateData EXCEPT !.stressedSince = Null, !.criticalSince = Null]]
    ELSE [next |-> "STRESSED", data |-> [stateData EXCEPT !.criticalSince = Null]]

\* Mutant: a CRITICAL zone whose avg5m is already at the NORMAL threshold
\* skips STRESSED.
EvaluateCriticalSkipsStressed(avg5m, currentTimestamp, stateData) ==
    IF AvgLE(avg5m, THRESHOLD_STRESSED_TO_NORMAL)
    THEN [next |-> "NORMAL",
          data |-> [stateData EXCEPT !.criticalSince = Null, !.stressedSince = Null]]
    ELSE IF AvgLE(avg5m, THRESHOLD_CRITICAL_TO_STRESSED)
    THEN [next |-> "STRESSED",
          data |-> [stateData EXCEPT !.criticalSince = Null,
                                     !.stressedSince = Some(currentTimestamp)]]
    ELSE [next |-> "CRITICAL", data |-> stateData]

\* Mutant: the downgrade waits for the NORMAL threshold (0.65 for 0.80).
EvaluateCriticalLateDowngrade(avg5m, currentTimestamp, stateData) ==
    IF AvgLE(avg5m, THRESHOLD_STRESSED_TO_NORMAL)
    THEN [next |-> "STRESSED",
          data |-> [stateData EXCEPT !.criticalSince = Null,
                                     !.stressedSince = Some(currentTimestamp)]]
    ELSE [next |-> "CRITICAL", data |-> stateData]

\* Mutant: the downgrade comparison is reversed (a5 >= 0.80).
EvaluateCriticalAboveThreshold(avg5m, currentTimestamp, stateData) ==
    IF AvgGE(avg5m, THRESHOLD_CRITICAL_TO_STRESSED)
    THEN [next |-> "STRESSED",
          data |-> [stateData EXCEPT !.criticalSince = Null,
                                     !.stressedSince = Some(currentTimestamp)]]
    ELSE [next |-> "CRITICAL", data |-> stateData]

\* Mutant: the downgrade does not start the STRESSED timer.
EvaluateCriticalLeavesStressedSince(avg5m, currentTimestamp, stateData) ==
    IF AvgLE(avg5m, THRESHOLD_CRITICAL_TO_STRESSED)
    THEN [next |-> "STRESSED", data |-> [stateData EXCEPT !.criticalSince = Null]]
    ELSE [next |-> "CRITICAL", data |-> stateData]

EvaluateCriticalState(avg5m, currentTimestamp, stateData) ==
    IF AvgLE(avg5m, THRESHOLD_CRITICAL_TO_STRESSED)
    THEN [next |-> "STRESSED",
          data |-> [stateData EXCEPT !.criticalSince = Null,
                                     !.stressedSince = Some(currentTimestamp)]]
    ELSE [next |-> "CRITICAL", data |-> stateData]

\* The returned state and the (mutated) stateData.
GetNextState(currentState, avg1m, avg5m, currentTimestamp, stateData) ==
    CASE currentState = "NORMAL" ->
            EvaluateNormalState(avg5m, currentTimestamp, stateData)
      [] currentState = "STRESSED" ->
            EvaluateStressedState(avg1m, avg5m, currentTimestamp, stateData)
      [] currentState = "CRITICAL" ->
            EvaluateCriticalState(avg5m, currentTimestamp, stateData)
      [] OTHER -> [next |-> "NORMAL", data |-> stateData]

\* Mutant: every state change alerts, whatever the last alert's timestamp.
ShouldAlertNoGuard(previousState, currentState, lastAlertTimestamp, currentTimestamp) ==
    previousState # currentState

\* Mutant: the guard lets an alert through at exactly 1000 ms.
ShouldAlertAtGuard(previousState, currentState, lastAlertTimestamp, currentTimestamp) ==
    /\ previousState # currentState
    /\ \/ IsNull(lastAlertTimestamp)
       \/ currentTimestamp - Val(lastAlertTimestamp) >= ALERT_GUARD_MS

ShouldAlert(previousState, currentState, lastAlertTimestamp, currentTimestamp) ==
    /\ previousState # currentState
    /\ \/ IsNull(lastAlertTimestamp)
       \/ currentTimestamp - Val(lastAlertTimestamp) > ALERT_GUARD_MS

\* --------------------------------------------------------- stream processor

CreateZoneState ==
    [currentState |-> "NORMAL",
     window1m |-> CreateWindow,
     window5m |-> CreateWindow,
     stressedSince |-> Null,
     criticalSince |-> Null,
     lastAlertTimestamp |-> Null]

NoCall == [zoneId |-> "none"]

\* The part of a ZoneStateData the state machine reads and writes, as
\* createZoneState builds it (and as it stands right after a transition
\* NORMAL -> STRESSED when currentState is STRESSED).
SmFresh(currentState) ==
    [currentState |-> currentState, stressedSince |-> Null, criticalSince |-> Null]

\* Mutant: every zone shares one entry, so a set overwrites all of them.
MapSetShared(map, key, value) ==
    [k \in (DOMAIN map) \cup {key} |-> value]

\* Map.set(key, value) on a map held as a function.
MapSet(map, key, value) ==
    [k \in (DOMAIN map) \cup {key} |-> IF k = key THEN value ELSE map[k]]

\* The ZoneAlert built in handleEvent for the in-flight call.
AlertOf(call) ==
    [zoneId |-> call.zoneId,
     previousState |-> call.previousState,
     currentState |-> call.nextState,
     avg1m |-> call.avg1m,
     avg5m |-> call.avg5m,
     timestamp |-> call.eventTimestamp]

\* The synchronous computation of handleEvent on the zone's ZoneStateData:
\* both window updates, the averages, the state machine (which mutates the
\* timers) and the alert decision.  zoneState is the ZoneStateData as it
\* stands when shouldAlert has been evaluated (currentState not yet updated).
ProcessEvent(created, zoneId, eventTimestamp, load) ==
    LET window1m == AddEvent(created.window1m, eventTimestamp, load, WINDOW_1M_SECONDS)
        window5m == AddEvent(created.window5m, eventTimestamp, load, WINDOW_5M_SECONDS)
        avg1m == CalculateAverage(window1m)
        avg5m == CalculateAverage(window5m)
        previousState == created.currentState
        result == GetNextState(created.currentState, avg1m, avg5m, eventTimestamp,
                               [created EXCEPT !.window1m = window1m,
                                               !.window5m = window5m])
    IN [zoneState |-> result.data,
        shouldAlert |-> ShouldAlert(previousState, result.next,
                                    result.data.lastAlertTimestamp, eventTimestamp),
        call |-> [zoneId |-> zoneId,
                  eventTimestamp |-> eventTimestamp,
                  load |-> load,
                  previousState |-> previousState,
                  nextState |-> result.next,
                  avg1m |-> avg1m,
                  avg5m |-> avg5m,
                  stateChanged |-> previousState # result.next]]

\* The locals of a suspended handleEvent call: those of the computation and
\* the coordinates of its event.
CallOf(call, coord) ==
    call @@ [latitude |-> coord[1], longitude |-> coord[2]]

\* Mutant: the Redis write sits inside the alert branch, so a state change
\* whose alert is withheld is not written.
HandleEventWritesOnAlert(zoneId, eventTimestamp, load, coord) ==
    \E r \in {ProcessEvent(IF zoneId \in DOMAIN zoneStates
                           THEN zoneStates[zoneId] ELSE CreateZoneState,
                           zoneId, eventTimestamp, load)} :
       /\ eventCounter' = eventCounter + 1
       /\ zoneCoordinates' =
            IF zoneId \in DOMAIN zoneCoordinates THEN zoneCoordinates
            ELSE MapSet(zoneCoordinates, zoneId,
                        [latitude |-> coord[1], longitude |-> coord[2]])
       /\ IF r.shouldAlert
          THEN /\ zoneStates' = MapSet(zoneStates, zoneId, r.zoneState)
               /\ pc' = "publish"
               /\ cur' = CallOf(r.call, coord)
               /\ offset' = offset
          ELSE /\ zoneStates' = MapSet(zoneStates, zoneId,
                        [r.zoneState EXCEPT !.currentState = r.call.nextState])
               /\ pc' = "idle"
               /\ cur' = NoCall
               /\ offset' = offset + 1
       /\ UNCHANGED <<alertLog, published, redisHash, redisGeo, sm>>

\* Mutant: the state update sits inside the alert branch, so a state change
\* whose alert is withheld is neither committed nor written.
HandleEventCommitsOnAlert(zoneId, eventTimestamp, load, coord) ==
    \E r \in {ProcessEvent(IF zoneId \in DOMAIN zoneStates
                           THEN zoneStates[zoneId] ELSE CreateZoneState,
                           zoneId, eventTimestamp, load)} :
       /\ eventCounter' = eventCounter + 1
       /\ zoneCoordinates' =
            IF zoneId \in DOMAIN zoneCoordinates THEN zoneCoordinates
            ELSE MapSet(zoneCoordinates, zoneId,
                        [latitude |-> coord[1], longitude |-> coord[2]])
       /\ IF r.shouldAlert
          THEN /\ zoneStates' = MapSet(zoneStates, zoneId, r.zoneState)
               /\ pc' = "publish"
               /\ cur' = CallOf(r.call, coord)
               /\ offset' = offset
          ELSE /\ zoneStates' = MapSet(zoneStates, zoneId, r.zoneState)
               /\ pc' = "idle"
               /\ cur' = NoCall
               /\ offset' = offset + 1
       /\ UNCHANGED <<alertLog, published, redisHash, redisGeo, sm>>

\* handleEvent up to its first suspension point (or to its end when neither
\* an alert nor a Redis write is due).
HandleEvent(zoneId, eventTimestamp, load, coord) ==
    \E r \in {ProcessEvent(IF zoneId \in DOMAIN zoneStates
                           THEN zoneStates[zoneId] ELSE CreateZoneState,
                           zoneId, eventTimestamp, load)} :
       /\ eventCounter' = eventCounter + 1
       /\ zoneCoordinates' =
            IF zoneId \in DOMAIN zoneCoordinates THEN zoneCoordinates
            ELSE MapSet(zoneCoordinates, zoneId,
                        [latitude |-> coord[1], longitude |-> coord[2]])
       /\ IF r.shouldAlert
          THEN \* suspended in await alertProducer.sendAlert(alert)
               /\ zoneStates' = MapSet(zoneStates, zoneId, r.zoneState)
               /\ pc' = "publish"
               /\ cur' = CallOf(r.call, coord)
               /\ offset' = offset
          ELSE /\ zoneStates' = MapSet(zoneStates, zoneId,
                        [r.zoneState EXCEPT !.currentState = r.call.nextState])
               /\ IF r.call.stateChanged
                  THEN \* suspended in await redisWriter.writeZoneState(...)
                       /\ pc' = "hset"
                       /\ cur' = CallOf(r.call, coord)
                       /\ offset' = offset
                  ELSE \* handleEvent returns, eachMessage resolves
                       /\ pc' = "idle"
                       /\ cur' = NoCall
                       /\ offset' = offset + 1
       /\ UNCHANGED <<alertLog, published, redisHash, redisGeo, sm>>

\* Mutant: the state update is left for after the Redis write, so the write
\* begins with the zone still in its previous state.
AfterPublishWritesFirst ==
    /\ alertLog' = Append(alertLog, AlertOf(cur))
    /\ zoneStates' = [zoneStates EXCEPT
            ![cur.zoneId].lastAlertTimestamp = Some(cur.eventTimestamp)]
    /\ pc' = "hset"
    /\ UNCHANGED <<zoneCoordinates, eventCounter, cur, redisHash, redisGeo, offset,
                   replay, sm>>

\* handleEvent after the publish attempt: the local log alert, the alert
\* timestamp, the state update; a state change always follows with the write.
AfterPublish ==
    /\ alertLog' = Append(alertLog, AlertOf(cur))
    /\ zoneStates' = [zoneStates EXCEPT
            ![cur.zoneId].lastAlertTimestamp = Some(cur.eventTimestamp),
            ![cur.zoneId].currentState = cur.nextState]
    /\ pc' = "hset"
    /\ UNCHANGED <<zoneCoordinates, eventCounter, cur, redisHash, redisGeo, offset,
                   replay, sm>>

\* Mutant: the record is built before handleEvent updates currentState.
ZoneRecordBeforeUpdate(zoneId) ==
    [zoneId |-> zoneId,
     state |-> cur.previousState,
     avg1m |-> CalculateAverage(zoneStates[zoneId].window1m),
     avg5m |-> CalculateAverage(zoneStates[zoneId].window5m),
     latitude |-> zoneCoordinates[zoneId].latitude,
     longitude |-> zoneCoordinates[zoneId].longitude]

\* The record writeZoneState puts in zone:<zoneId> (lastUpdated, the wall
\* clock of the write, is left out).
ZoneRecord(zoneId) ==
    [zoneId |-> zoneId,
     state |-> zoneStates[zoneId].currentState,
     avg1m |-> CalculateAverage(zoneStates[zoneId].window1m),
     avg5m |-> CalculateAverage(zoneStates[zoneId].window5m),
     latitude |-> zoneCoordinates[zoneId].latitude,
     longitude |-> zoneCoordinates[zoneId].longitude]

\* eachMessage resolves (also after a caught error): the offset moves on.
Resolve ==
    /\ pc' = "idle"
    /\ cur' = NoCall
    /\ offset' = offset + 1

\* handleEvent run from its start to its end on the processor state p, with
\* no transport failure: the zone's final ZoneStateData and the alert emitted.
ReplayEvent(p, zoneId, eventTimestamp, load) ==
    LET r == ProcessEvent(IF zoneId \in DOMAIN p.zoneStates
                          THEN p.zoneStates[zoneId] ELSE CreateZoneState,
                          zoneId, eventTimestamp, load)
        final == [r.zoneState EXCEPT
                    !.lastAlertTimestamp =
                        IF r.shouldAlert THEN Some(eventTimestamp) ELSE @,
                    !.currentState = r.call.nextState]
    IN [zoneStates |-> MapSet(p.zoneStates, zoneId, final),
        alerts |-> IF r.shouldAlert THEN Append(p.alerts, AlertOf(r.call))
                   ELSE p.alerts]

\* ----------------------------------------------------------------- actions

MainInit ==
    /\ zoneStates = <<>>
    /\ zoneCoordinates = <<>>
    /\ eventCounter = 0
    /\ pc = "idle"
    /\ cur = NoCall
    /\ alertLog = <<>>
    /\ published = <<>>
    /\ redisHash = <<>>
    /\ redisGeo = <<>>
    /\ offset = 0
    /\ replay = [zoneStates |-> <<>>, alerts |-> <<>>]

Init ==
    /\ MainInit
    /\ sm = [data |-> SmFresh("NORMAL"), calls |-> <<>>]

\* Mutant: eachMessage does not await the handler, so the next message is
\* handled while the call of the previous one is still suspended.
DeliverUnawaited(zoneId, eventTimestamp, load, coord) ==
    /\ replay' = ReplayEvent(replay, zoneId, eventTimestamp, load)
    /\ HandleEvent(zoneId, eventTimestamp, load, coord)

\* eachMessage: a decodable message arrives and handleEvent runs.
Deliver(zoneId, eventTimestamp, load, coord) ==
    /\ pc = "idle"
    /\ replay' = ReplayEvent(replay, zoneId, eventTimestamp, load)
    /\ HandleEvent(zoneId, eventTimestamp, load, coord)

\* Deliver, for as long as the run is within its event bound.
Receive(zoneId, eventTimestamp, load, coord) ==
    /\ eventCounter < MaxEvents
    /\ Deliver(zoneId, eventTimestamp, load, coord)

\* Mutant: the handler is not awaited past the publish, so eachMessage
\* resolves (and the offset moves) while the Redis write is still to come.
PublishOkDetached ==
    /\ pc = "publish"
    /\ published' = Append(published, AlertOf(cur))
    /\ alertLog' = Append(alertLog, AlertOf(cur))
    /\ zoneStates' = [zoneStates EXCEPT
            ![cur.zoneId].lastAlertTimestamp = Some(cur.eventTimestamp),
            ![cur.zoneId].currentState = cur.nextState]
    /\ pc' = "hset"
    /\ offset' = offset + 1
    /\ UNCHANGED <<zoneCoordinates, eventCounter, cur, redisHash, redisGeo,
                   replay, sm>>

\* Mutant: the alert of the call in flight lands on the topic ahead of the
\* alerts of earlier events.
PublishOkOutOfOrder ==
    /\ pc = "publish"
    /\ published' = <<AlertOf(cur)>> \o published
    /\ AfterPublish

\* producer.send succeeds: the alert is on zone.alerts.
PublishOk ==
    /\ pc = "publish"
    /\ published' = Append(published, AlertOf(cur))
    /\ AfterPublish

\* Mutant: a failed publish leaves the alert branch at once, so neither the
\* local log alert nor lastAlertTimestamp is written.
PublishFailAborts ==
    /\ pc = "publish"
    /\ zoneStates' = [zoneStates EXCEPT ![cur.zoneId].currentState = cur.nextState]
    /\ pc' = "hset"
    /\ UNCHANGED <<zoneCoordinates, eventCounter, cur, alertLog, published,
                   redisHash, redisGeo, offset, replay, sm>>

\* Mutant: the error of sendAlert is not caught in handleEvent, so the call
\* ends in eachMessage's catch before the alert timestamp and the new state
\* are written.
PublishFailRethrows ==
    /\ pc = "publish"
    /\ Resolve
    /\ UNCHANGED <<zoneStates, zoneCoordinates, eventCounter, alertLog,
                   published, redisHash, redisGeo, replay, sm>>

\* sendAlert throws; handleEvent catches, logs and goes on.
PublishFail ==
    /\ pc = "publish"
    /\ published' = published
    /\ AfterPublish

\* client.hSet succeeds; writeZoneState goes on to geoAdd.
HSetOkStep ==
    /\ pc = "hset"
    /\ redisHash' = MapSet(redisHash, cur.zoneId, ZoneRecord(cur.zoneId))
    /\ pc' = "geoadd"
    /\ UNCHANGED <<zoneStates, zoneCoordinates, eventCounter, cur, alertLog,
                   published, redisGeo, offset, replay>>

HSetOk ==
    /\ HSetOkStep
    /\ UNCHANGED sm

\* Mutant: the error of a failed write is not swallowed by eachMessage, so
\* the call ends without its offset being resolved.
HSetFailHoldsOffset ==
    /\ pc = "hset"
    /\ pc' = "idle"
    /\ cur' = NoCall
    /\ UNCHANGED <<zoneStates, zoneCoordinates, eventCounter, alertLog,
                   published, redisHash, redisGeo, offset, replay, sm>>

\* Mutant: a failed write undoes the state change it was to record.
HSetFailRollsBack ==
    /\ pc = "hset"
    /\ zoneStates' = [zoneStates EXCEPT ![cur.zoneId].currentState = cur.previousState]
    /\ Resolve
    /\ UNCHANGED <<zoneCoordinates, eventCounter, alertLog,
                   published, redisHash, redisGeo, replay, sm>>

\* client.hSet throws; the error leaves handleEvent and eachMessage catches it.
HSetFailStep ==
    /\ pc = "hset"
    /\ Resolve
    /\ UNCHANGED <<zoneStates, zoneCoordinates, eventCounter, alertLog,
                   published, redisHash, redisGeo, replay>>

HSetFail ==
    /\ HSetFailStep
    /\ UNCHANGED sm

\* client.geoAdd succeeds; handleEvent returns.
GeoAddOkStep ==
    /\ pc = "geoadd"
    /\ redisGeo' = MapSet(redisGeo, cur.zoneId,
                          <<zoneCoordinates[cur.zoneId].longitude,
                            zoneCoordinates[cur.zoneId].latitude>>)
    /\ Resolve
    /\ UNCHANGED <<zoneStates, zoneCoordinates, eventCounter, alertLog,
                   published, redisHash, replay>>

GeoAddOk ==
    /\ GeoAddOkStep
    /\ UNCHANGED sm

\* client.geoAdd throws; eachMessage catches it.
GeoAddFailStep ==
    /\ pc = "geoadd"
    /\ Resolve
    /\ UNCHANGED <<zoneStates, zoneCoordinates, eventCounter, alertLog,
                   published, redisHash, redisGeo, replay>>

GeoAddFail ==
    /\ GeoAddFailStep
    /\ UNCHANGED sm

Next ==
    \/ \E z \in Zones, t \in Times, l \in Loads, c \in Coords : Receive(z, t, l, c)
    \/ PublishOk
    \/ PublishFail
    \/ HSetOk
    \/ HSetFail
    \/ GeoAddOk
    \/ GeoAddFail

Spec == Init /\ [][Next]_vars

\* ------------------------------------------- out-of-range load specification

\* Decoded loads (hundredths) of the events of this run: 1.0, which honours
\* the documented range 0.0 to 1.0, and 1.5, which does not.  JSON.parse
\* accepts both and eachMessage hands both to handleEvent.
RangeLoads == {100, 150}

RangeTimes == {0, 60000, 80000}

NextRange ==
    \/ \E z \in Zones, t \in RangeTimes, l \in RangeLoads, c \in Coords :
            Receive(z, t, l, c)
    \/ PublishOk
    \/ PublishFail
    \/ HSetOk
    \/ HSetFail
    \/ GeoAddOk
    \/ GeoAddFail

SpecRange == Init /\ [][NextRange]_vars

\* ------------------------------------------------- undecodable messages

\* Length of the partition's log in this run.
MaxMessages == 8

\* What the message at an offset of the log carries: no value at all, bytes
\* JSON.parse rejects, or the JSON of a sensor event.
LogKind(i) ==
    IF i % 4 = 1 THEN "garbage"
    ELSE IF i % 4 = 3 THEN "empty"
    ELSE "event"

\* Mutant: the payload is handed to the handler without being parsed, so
\* the handler is entered for a message that carries no event.
EachMessageHandsOver ==
    /\ pc = "idle"
    /\ offset < MaxMessages
    /\ LogKind(offset) # "event"
    /\ eventCounter' = eventCounter + 1
    /\ offset' = offset + 1
    /\ UNCHANGED <<zoneStates, zoneCoordinates, pc, cur, alertLog,
                   published, redisHash, redisGeo, replay, sm>>

\* eachMessage on a message without value (early return) or with a payload
\* JSON.parse throws on (caught and logged): the handler is not called and
\* eachMessage resolves.
EachMessageSkips ==
    /\ pc = "idle"
    /\ offset < MaxMessages
    /\ LogKind(offset) # "event"
    /\ offset' = offset + 1
    /\ UNCHANGED <<zoneStates, zoneCoordinates, eventCounter, pc, cur, alertLog,
                   published, redisHash, redisGeo, replay, sm>>

NextDecode ==
    \/ /\ offset < MaxMessages
       /\ LogKind(offset) = "event"
       /\ \E z \in Zones, t \in Times, l \in Loads, c \in Coords :
                Deliver(z, t, l, c)
    \/ EachMessageSkips
    \/ PublishOk
    \/ PublishFail
    \/ HSetOk
    \/ HSetFail
    \/ GeoAddOk
    \/ GeoAddFail

SpecDecode == Init /\ [][NextDecode]_vars

\* ------------------------------------------------- moving zone specification

\* (latitude, longitude) of the events of a zone whose sensor reports from
\* two places.
MovingCoords == {<<28, 77>>, <<19, 72>>}

MovingTimes == {0, 60000, 80000}

NextMoving ==
    \/ \E z \in Zones, t \in MovingTimes, c \in MovingCoords :
            Receive(z, t, 100, c)
    \/ PublishOk
    \/ PublishFail
    \/ HSetOk
    \/ HSetFail
    \/ GeoAddOk
    \/ GeoAddFail

SpecMoving == Init /\ [][NextMoving]_vars

\* ------------------------------------------- store always up specification

\* The processor with a Redis that never fails: every hSet and geoAdd
\* succeeds (publishes may still fail).
NextStoreUp ==
    \/ \E z \in Zones, t \in Times, l \in Loads, c \in Coords : Receive(z, t, l, c)
    \/ PublishOk
    \/ PublishFail
    \/ HSetOk
    \/ GeoAddOk

SpecStoreUp == Init /\ [][NextStoreUp]_vars

\* ------------------------------------------- console-only specification

\* handleEvent of the console-only StreamProcessor on the processor p: get
\* or create the zone, add the event to both windows, take the averages, ask
\* the state machine, emit the alert to the console and set
\* lastAlertTimestamp when shouldAlert says so, then update the state.
ConsoleHandleEvent(p, zoneId, eventTimestamp, load) ==
    LET zoneState == IF zoneId \in DOMAIN p.zoneStates
                     THEN p.zoneStates[zoneId] ELSE CreateZoneState
        added == [zoneState EXCEPT
                    !.window1m = AddEvent(@, eventTimestamp, load, WINDOW_1M_SECONDS),
                    !.window5m = AddEvent(@, eventTimestamp, load, WINDOW_5M_SECONDS)]
        avg1m == CalculateAverage(added.window1m)
        avg5m == CalculateAverage(added.window5m)
        previousState == added.currentState
        result == GetNextState(added.currentState, avg1m, avg5m, eventTimestamp, added)
        alerted == ShouldAlert(previousState, result.next,
                               result.data.lastAlertTimestamp, eventTimestamp)
    IN [zoneStates |->
            MapSet(p.zoneStates, zoneId,
                   [result.data EXCEPT
                        !.lastAlertTimestamp =
                            IF alerted THEN Some(eventTimestamp) ELSE @,
                        !.currentState = result.next]),
        alerts |->
            IF alerted
            THEN Append(p.alerts,
                        [zoneId |-> zoneId,
                         previousState |-> previousState,
                         currentState |-> result.next,
                         avg1m |-> avg1m,
                         avg5m |-> avg5m,
                         timestamp |-> eventTimestamp])
            ELSE p.alerts]

\* In this specification replay holds the console-only processor, fed each
\* event the processor with producer, Redis writer and metrics is fed.
DeliverBoth(zoneId, eventTimestamp, load, coord) ==
    /\ pc = "idle"
    /\ eventCounter < MaxEvents
    /\ replay' = ConsoleHandleEvent(replay, zoneId, eventTimestamp, load)
    /\ HandleEvent(zoneId, eventTimestamp, load, coord)

NextConsole ==
    \/ \E z \in Zones, t \in Times, l \in Loads, c \in Coords : DeliverBoth(z, t, l, c)
    \/ PublishOk
    \/ PublishFail
    \/ HSetOk
    \/ HSetFail
    \/ GeoAddOk
    \/ GeoAddFail

SpecConsole == Init /\ [][NextConsole]_vars

\* ------------------------------------------------ alert guard specification

\* Event timestamps (ms) around the alert guard: a state change 1000 ms and
\* 1001 ms after the alert at 60000 (the out-of-order 0 starts the CRITICAL
\* confirmation early enough for it).
GuardTimes == {0, 60000, 61000, 61001}

NextGuard ==
    \/ \E z \in Zones, t \in GuardTimes, l \in Loads, c \in Coords :
            Receive(z, t, l, c)
    \/ PublishOk
    \/ PublishFail
    \/ HSetOk
    \/ HSetFail
    \/ GeoAddOk
    \/ GeoAddFail

SpecGuard == Init /\ [][NextGuard]_vars

\* ------------------------------------------------ hysteresis specification

\* Events <<timestamp ms, load in hundredths>> that put the 5-minute average
\* of a STRESSED zone inside (0.65, 0.75): two at full load a minute apart,
\* an old one with no load, and two recent ones that keep the 1-minute
\* average at 0.90 or more.  They arrive in any order, any number of times.
HystEvents == {<<0, 100>>, <<60000, 100>>, <<0, 0>>, <<80000, 90>>, <<100000, 80>>}

NextHyst ==
    \/ \E z \in Zones, e \in HystEvents, c \in Coords : Receive(z, e[1], e[2], c)
    \/ PublishOk
    \/ PublishFail
    \/ HSetOk
    \/ HSetFail
    \/ GeoAddOk
    \/ GeoAddFail

SpecHyst == Init /\ [][NextHyst]_vars

\* ------------------------------------------------------ ramp and recovery

\* One event per second for zone Z-1: RampEvents events at load 0.95 with
\* eventTimestamp = 1 000 000 + 1000 i, then RecoveryEvents events at load
\* 0.10 on the same clock.
RampEvents == 400

RecoveryEvents == 300

RampEvent(i) ==
    [timestamp |-> 1000000 + MS_PER_SECOND * i,
     load |-> IF i < RampEvents THEN 95 ELSE 10]

\* Transport steps of the in-flight call, as in Next.
Transport ==
    \/ PublishOk
    \/ PublishFail
    \/ HSetOk
    \/ HSetFail
    \/ GeoAddOk
    \/ GeoAddFail

NextRamp ==
    \/ /\ eventCounter < RampEvents + RecoveryEvents
       /\ \E c \in Coords :
            Deliver("Z-1", RampEvent(eventCounter).timestamp,
                    RampEvent(eventCounter).load, c)
    \/ Transport

SpecRamp == Init /\ [][NextRamp]_vars

\* ------------------------------------------------------ confirmation reset

\* One event per second for zone Z-1 from timestamp 0: ResetFirstRun events
\* at load 0.80, one event at load 0.10, ResetSecondRun events at load 0.80.
ResetFirstRun == 30

ResetSecondRun == 60

ResetEvent(i) ==
    [timestamp |-> MS_PER_SECOND * i,
     load |-> IF i = ResetFirstRun THEN 10 ELSE 80]

NextReset ==
    \/ /\ eventCounter < ResetFirstRun + 1 + ResetSecondRun
       /\ \E c \in Coords :
            Deliver("Z-1", ResetEvent(eventCounter).timestamp,
                    ResetEvent(eventCounter).load, c)
    \/ Transport

SpecReset == Init /\ [][NextReset]_vars

\* --------------------------------------------------- out-of-order insertion

\* 60 events at 1 Hz with load 0.95 for zone Z-1 (timestamps 1000 i), then
\* one event whose timestamp is LateSeconds seconds before the last of them,
\* with a load of LateLoads.
LateSeconds == 1..59

LateLoads == {0, 95}

NextLate ==
    \/ /\ eventCounter < 60
       /\ \E c \in Coords : Deliver("Z-1", MS_PER_SECOND * eventCounter, 95, c)
    \/ /\ eventCounter = 60
       /\ \E d \in LateSeconds, l \in LateLoads, c \in Coords :
            Deliver("Z-1", MS_PER_SECOND * (59 - d), l, c)

SpecLate == Init /\ [][NextLate]_vars

\* ------------------------------------------------------------- two zones

\* Z-A sends load 0.95 and Z-B load 0.10, interleaved in any order.  In this
\* specification replay holds one processor per zone, each fed only its own
\* zone's events from a fresh state.
IsoZones == {"Z-A", "Z-B"}

IsoLoad(zoneId) == IF zoneId = "Z-A" THEN 95 ELSE 10

\* Timestamps enough for Z-A to go NORMAL -> STRESSED -> CRITICAL.
IsoTimes == {0, 60000, 80000}

MaxZoneEvents == 6

InitZones ==
    /\ zoneStates = <<>>
    /\ zoneCoordinates = <<>>
    /\ eventCounter = 0
    /\ pc = "idle"
    /\ cur = NoCall
    /\ alertLog = <<>>
    /\ published = <<>>
    /\ redisHash = <<>>
    /\ redisGeo = <<>>
    /\ offset = 0
    /\ replay = [z \in IsoZones |-> [zoneStates |-> <<>>, alerts |-> <<>>]]
    /\ sm = [data |-> SmFresh("NORMAL"), calls |-> <<>>]

DeliverZone(zoneId, eventTimestamp, load, coord) ==
    /\ pc = "idle"
    /\ eventCounter < MaxZoneEvents
    /\ replay' = [replay EXCEPT
            ![zoneId] = ReplayEvent(replay[zoneId], zoneId, eventTimestamp, load)]
    /\ HandleEvent(zoneId, eventTimestamp, load, coord)

NextZones ==
    \/ \E z \in IsoZones, t \in IsoTimes, c \in Coords :
            DeliverZone(z, t, IsoLoad(z), c)
    \/ Transport

SpecZones == InitZones /\ [][NextZones]_vars

\* ------------------------------------------- the state machine on its own

\* Averages, in hundredths, around each threshold.
SmAvg1m == {89, 90, 91}

SmAvg5m == {64, 65, 66, 74, 75, 76, 79, 80, 81}

\* Timestamps around both confirmation times.
SmTimes == {0, 1, 19999, 20000, 20001, 59999, 60000, 60001}

SmTimers == {Null, Some(0), Some(1)}

\* Inputs of the runs that follow the timers over several calls.
TimerAvg1m == {89, 90}

TimerAvg5m == {74, 75}

TimerTimes == {0, 20000, 60000}

\* Number of getNextState calls in such a run.
MaxSmCalls == 4

mainVars == <<zoneStates, zoneCoordinates, eventCounter, pc, cur, alertLog,
              published, redisHash, redisGeo, offset, replay>>

\* One getNextState call on sm.data followed, as in handleEvent, by
\* currentState = nextState.
SmCall(avg1m, avg5m, currentTimestamp) ==
    /\ \E r \in {GetNextState(sm.data.currentState,
                               [num |-> avg1m, den |-> 1], [num |-> avg5m, den |-> 1],
                               currentTimestamp, sm.data)} :
            sm' = [data |-> [r.data EXCEPT !.currentState = r.next],
                   calls |-> Append(sm.calls,
                        [avg1m |-> [num |-> avg1m, den |-> 1],
                         avg5m |-> [num |-> avg5m, den |-> 1],
                         timestamp |-> currentTimestamp,
                         before |-> sm.data,
                         after |-> [r.data EXCEPT !.currentState = r.next]])]
    /\ UNCHANGED mainVars

\* One call on any stateData: every state with every pair of timers.
InitSM ==
    /\ MainInit
    /\ \E st \in ZoneStateValues, ss \in SmTimers, cs \in SmTimers :
            sm = [data |-> [currentState |-> st, stressedSince |-> ss,
                            criticalSince |-> cs],
                  calls |-> <<>>]

NextSM ==
    \E a1 \in SmAvg1m, a5 \in SmAvg5m, t \in SmTimes :
        /\ sm.calls = <<>>
        /\ SmCall(a1, a5, t)

SpecSM == InitSM /\ [][NextSM]_vars

\* Several calls in a row, timestamps in any order, from a zone just created
\* or just turned STRESSED.
InitTimer ==
    /\ MainInit
    /\ \E st \in {"NORMAL", "STRESSED"} : sm = [data |-> SmFresh(st), calls |-> <<>>]

NextTimer ==
    \E a1 \in TimerAvg1m, a5 \in TimerAvg5m, t \in TimerTimes :
        /\ Len(sm.calls) < MaxSmCalls
        /\ SmCall(a1, a5, t)

SpecTimer == InitTimer /\ [][NextTimer]_vars

\* ------------------------------------------- the outcome of the last write

\* Two zones; in this specification sm holds, per zone, how the zone's most
\* recent writeZoneState call ended: "none" before the first, "ok" when
\* hSet and geoAdd both returned, "failed" when either threw.
WriteZones == {"Z-1", "Z-2"}

WriteTimes == {0, 60000, 80000}

MaxWriteEvents == 5

InitWrites ==
    /\ MainInit
    /\ sm = [z \in WriteZones |-> "none"]

DeliverWrite(zoneId, eventTimestamp, load, coord) ==
    /\ eventCounter < MaxWriteEvents
    /\ Deliver(zoneId, eventTimestamp, load, coord)

WriteHSetOk ==
    /\ HSetOkStep
    /\ UNCHANGED sm

WriteHSetFail ==
    /\ sm' = [sm EXCEPT ![cur.zoneId] = "failed"]
    /\ HSetFailStep

WriteGeoAddOk ==
    /\ sm' = [sm EXCEPT ![cur.zoneId] = "ok"]
    /\ GeoAddOkStep

WriteGeoAddFail ==
    /\ sm' = [sm EXCEPT ![cur.zoneId] = "failed"]
    /\ GeoAddFailStep

NextWrites ==
    \/ \E z \in WriteZones, t \in WriteTimes, l \in Loads, c \in Coords :
            DeliverWrite(z, t, l, c)
    \/ PublishOk
    \/ PublishFail
    \/ WriteHSetOk
    \/ WriteHSetFail
    \/ WriteGeoAddOk
    \/ WriteGeoAddFail

SpecWrites == InitWrites /\ [][NextWrites]_vars

\* ------------------------------------------------ a zone through its cycle

\* Averages (hundredths) that confirm and break each condition.
CycleAvg1m == {89, 90}

CycleAvg5m == {65, 75, 81}

CycleTimes == {0, 20000, 60000}

\* Number of getNextState calls in a run.
MaxCycleCalls == 5

\* One getNextState call on sm.data followed by currentState = nextState.
\* sm also keeps the timestamps of the calls made since the zone last
\* entered NORMAL while it stayed NORMAL, the states the zone has been in,
\* and the last call.
CycleCall(avg1m, avg5m, currentTimestamp) ==
    /\ \E r \in {GetNextState(sm.data.currentState,
                               [num |-> avg1m, den |-> 1], [num |-> avg5m, den |-> 1],
                               currentTimestamp, sm.data)} :
            sm' = [data |-> [r.data EXCEPT !.currentState = r.next],
                   sinceNormal |->
                        IF sm.data.currentState = "NORMAL" /\ r.next = "NORMAL"
                        THEN sm.sinceNormal \cup {currentTimestamp}
                        ELSE {},
                   visited |-> sm.visited \cup {r.next},
                   n |-> sm.n + 1,
                   last |-> Some([before |-> sm.data,
                                  sinceNormal |-> sm.sinceNormal,
                                  timestamp |-> currentTimestamp])]
    /\ UNCHANGED mainVars

\* A zone just created, or just turned STRESSED.
InitCycle ==
    /\ MainInit
    /\ \E st \in {"NORMAL", "STRESSED"} :
            sm = [data |-> SmFresh(st),
                  sinceNormal |-> {},
                  visited |-> {st},
                  n |-> 0,
                  last |-> Null]

NextCycle ==
    \E a1 \in CycleAvg1m, a5 \in CycleAvg5m, t \in CycleTimes :
        /\ sm.n < MaxCycleCalls
        /\ CycleCall(a1, a5, t)

SpecCycle == InitCycle /\ [][NextCycle]_vars

\* ------------------------------------------------------ one window alone

\* Window sizes of the two windows handleEvent keeps.
WindowSizes == {WINDOW_1M_SECONDS, WINDOW_5M_SECONDS}

\* Timestamps (ms) whose seconds lie 59, 60 and 61 s and 299 and 300 s apart,
\* with two in one second.
WindowTimes == {0, 1000, 1999, 60000, 61000, 120000, 121000, 300000}

\* Number of addEvent calls on the window.
MaxAdds == 3

\* One addEvent call on sm.window followed by calculateAverage; sm keeps the
\* call (window before it, arguments, highest second added before it).
WindowAdd(timestamp, load) ==
    /\ \E w \in {AddEvent(sm.window, timestamp, load, sm.size)} :
            sm' = [window |-> w,
                   size |-> sm.size,
                   average |-> CalculateAverage(w),
                   adds |-> sm.adds + 1,
                   highest |-> IF IsNull(sm.highest)
                                  \/ Val(sm.highest) < timestamp \div MS_PER_SECOND
                               THEN Some(timestamp \div MS_PER_SECOND)
                               ELSE sm.highest,
                   last |-> Some([before |-> sm.window,
                                  timestamp |-> timestamp,
                                  load |-> load,
                                  highest |-> sm.highest])]
    /\ UNCHANGED mainVars

\* A window as createWindow returns it, and its average.
InitWindow ==
    /\ MainInit
    /\ \E size \in WindowSizes :
            sm = [window |-> CreateWindow,
                  size |-> size,
                  average |-> CalculateAverage(CreateWindow),
                  adds |-> 0,
                  highest |-> Null,
                  last |-> Null]

NextWindow ==
    \E t \in WindowTimes, l \in Loads :
        /\ sm.adds < MaxAdds
        /\ WindowAdd(t, l)

SpecWindow == InitWindow /\ [][NextWindow]_vars

\* ---------------------------------------------------------------- shutdown

\* Number of shutdown signals the process receives in a run.
MaxSignals == 2

ShutdownTimes == {0, 60000}

\* In this specification sm holds the process: isRunning, where the stop()
\* call that found isRunning set is suspended ("none" before it, then the
\* disconnect it awaits, then "done"), which clients are still connected,
\* the signals received and whether process.exit has been called.
InitShutdown ==
    /\ MainInit
    /\ sm = [isRunning |-> TRUE,
             stop |-> "none",
             consumer |-> TRUE,
             producer |-> TRUE,
             redis |-> TRUE,
             signals |-> 0,
             exited |-> FALSE]

\* A SIGINT or SIGTERM handler runs: stop() either finds isRunning set,
\* clears it and suspends in consumer.disconnect(), or returns at once, and
\* then the handler calls process.exit(0).
OnSignal ==
    /\ ~sm.exited
    /\ sm.signals < MaxSignals
    /\ sm' = IF sm.isRunning
             THEN [sm EXCEPT !.signals = @ + 1, !.isRunning = FALSE,
                             !.stop = "consumer"]
             ELSE [sm EXCEPT !.signals = @ + 1, !.exited = TRUE]
    /\ UNCHANGED mainVars

\* consumer.disconnect() resolves: the client has stopped fetching when the
\* call was made and resolves once the eachMessage in flight has ended.
ConsumerDisconnect ==
    /\ ~sm.exited
    /\ sm.stop = "consumer"
    /\ pc = "idle"
    /\ sm' = [sm EXCEPT !.consumer = FALSE, !.stop = "producer"]
    /\ UNCHANGED mainVars

\* alertProducer.disconnect() resolves.
ProducerDisconnect ==
    /\ ~sm.exited
    /\ sm.stop = "producer"
    /\ sm' = [sm EXCEPT !.producer = FALSE, !.stop = "redis"]
    /\ UNCHANGED mainVars

\* redisClient.disconnect() resolves, stop() logs its summary and returns,
\* and the handler that awaited it calls process.exit(0).
RedisDisconnect ==
    /\ ~sm.exited
    /\ sm.stop = "redis"
    /\ sm' = [sm EXCEPT !.redis = FALSE, !.stop = "done", !.exited = TRUE]
    /\ UNCHANGED mainVars

NextShutdown ==
    \/ /\ ~sm.exited
       /\ sm.stop = "none"
       /\ \E z \in Zones, t \in ShutdownTimes, c \in Coords : Receive(z, t, 100, c)
    \/ /\ ~sm.exited
       /\ Transport
    \/ OnSignal
    \/ ConsumerDisconnect
    \/ ProducerDisconnect
    \/ RedisDisconnect

SpecShutdown == InitShutdown /\ [][NextShutdown]_vars

\* --------------------------------------------------------- alert processor

PER_ZONE_LIMIT == 100

GLOBAL_LIMIT == 1000

\* Number of messages of zone.alerts the alert processor consumes in a run.
MaxDeliveries == 3

\* Alerts on zone.alerts: the two upward transitions of one zone.
TopicAlerts ==
    {[zoneId |-> "Z-1", previousState |-> "NORMAL", currentState |-> "STRESSED",
      avg1m |-> [num |-> 1, den |-> 1], avg5m |-> [num |-> 1, den |-> 1],
      timestamp |-> 60000],
     [zoneId |-> "Z-1", previousState |-> "STRESSED", currentState |-> "CRITICAL",
      avg1m |-> [num |-> 1, den |-> 1], avg5m |-> [num |-> 1, den |-> 1],
      timestamp |-> 80000]}

\* How far persistToRedis gets before a Redis call throws (the error is
\* caught and logged): through both lists, the per-zone list only, or nowhere.
RedisOutcomes == {"both", "zone", "none"}

\* redis.lPush then redis.lTrim(key, 0, limit - 1) on a list held newest
\* first.
PushTrim(list, entry, limit) ==
    LET pushed == <<entry>> \o list
    IN SubSeq(pushed, 1, IF Len(pushed) < limit THEN Len(pushed) ELSE limit)

\* The entry of the per-zone list: the alert without its zoneId.
ZoneEntry(alert) ==
    [previousState |-> alert.previousState,
     currentState |-> alert.currentState,
     avg1m |-> alert.avg1m,
     avg5m |-> alert.avg5m,
     timestamp |-> alert.timestamp]

\* In this specification sm holds the alert processor's stores: the rows of
\* zone_alerts in insertion order, the per-zone lists alerts:zone:<id>, the
\* list alerts:global, and the number of messages consumed.
InitAlerts ==
    /\ MainInit
    /\ sm = [zoneAlerts |-> <<>>,
             zoneLists |-> <<>>,
             globalList |-> <<>>,
             deliveries |-> 0]

\* eachMessage of the alert consumer on a message carrying the alert:
\* persistAlert pushes to Redis (best effort) and then inserts the row (an
\* insert that throws is logged and the message is passed over).
PersistAlert(alert, redisOutcome, insertOk) ==
    /\ sm.deliveries < MaxDeliveries
    /\ sm' = [zoneAlerts |-> IF insertOk THEN Append(sm.zoneAlerts, alert)
                              ELSE sm.zoneAlerts,
              zoneLists |->
                IF redisOutcome = "none" THEN sm.zoneLists
                ELSE MapSet(sm.zoneLists, alert.zoneId,
                            PushTrim(IF alert.zoneId \in DOMAIN sm.zoneLists
                                     THEN sm.zoneLists[alert.zoneId] ELSE <<>>,
                                     ZoneEntry(alert), PER_ZONE_LIMIT)),
              globalList |->
                IF redisOutcome = "both"
                THEN PushTrim(sm.globalList, alert, GLOBAL_LIMIT)
                ELSE sm.globalList,
              deliveries |-> sm.deliveries + 1]
    /\ UNCHANGED mainVars

NextAlerts ==
    \E alert \in TopicAlerts, redisOutcome \in RedisOutcomes, insertOk \in BOOLEAN :
        PersistAlert(alert, redisOutcome, insertOk)

SpecAlerts == InitAlerts /\ [][NextAlerts]_vars

\* ------------------------------------------------------------------ claims

LegalTransitions ==
    {<<"NORMAL", "STRESSED">>, <<"STRESSED", "CRITICAL">>,
     <<"CRITICAL", "STRESSED">>, <<"STRESSED", "NORMAL">>}

\* The emitted alerts of one zone, in emission order.
AlertsOf(zoneId) == SelectSeq(alertLog, LAMBDA a : a.zoneId = zoneId)

IsLegalAlert(a) ==
    /\ a.previousState # a.currentState
    /\ <<a.previousState, a.currentState>> \in LegalTransitions

\* C1: every emitted alert (handed to the local log, accepted by the egress
\* topic, or being published) has previousState # currentState and is one of
\* the four legal transitions.
C1_EmittedAlertsAreLegal ==
    /\ \A i \in DOMAIN alertLog : IsLegalAlert(alertLog[i])
    /\ \A i \in DOMAIN published : IsLegalAlert(published[i])
    /\ pc = "publish" => IsLegalAlert(AlertOf(cur))

\* Alerts for three of the transitions have been emitted, in a run that had a
\* CRITICAL zone.
C1_Witness ==
    /\ Len(alertLog) >= 3
    /\ \E i \in DOMAIN alertLog : alertLog[i].currentState = "CRITICAL"
    /\ \E i \in DOMAIN alertLog : alertLog[i].previousState = "CRITICAL"

\* C2: for every zone, each emitted alert's previousState is the currentState
\* of the zone's previous emitted alert.
C2_AlertChainIsContinuous ==
    \A z \in Zones :
        \A i \in 1..(Len(AlertsOf(z)) - 1) :
            AlertsOf(z)[i + 1].previousState = AlertsOf(z)[i].currentState

\* C3: for every zone, the timestamps of its emitted alerts never decrease
\* along the emission order.
C3_AlertTimestampsNonDecreasing ==
    \A z \in Zones :
        \A i \in 1..(Len(AlertsOf(z)) - 1) :
            AlertsOf(z)[i + 1].timestamp >= AlertsOf(z)[i].timestamp

\* A zone with two emitted alerts changes state on an event whose timestamp
\* is older than the last alert's; the call is about to write the new state.
C3_Witness ==
    /\ pc = "hset"
    /\ cur.stateChanged
    /\ Len(AlertsOf(cur.zoneId)) >= 2
    /\ cur.eventTimestamp < AlertsOf(cur.zoneId)[Len(AlertsOf(cur.zoneId))].timestamp

BucketKeys(window) == DOMAIN window.buckets

\* Every bucket of both windows has its key in (k - size, k].
WindowsWithin(zoneState, k) ==
    /\ \A ts \in BucketKeys(zoneState.window1m) :
            k - WINDOW_1M_SECONDS < ts /\ ts <= k
    /\ \A ts \in BucketKeys(zoneState.window5m) :
            k - WINDOW_5M_SECONDS < ts /\ ts <= k

\* Every bucket of both windows has its key above k - size.
WindowsNotExpired(zoneState, k) ==
    /\ \A ts \in BucketKeys(zoneState.window1m) : k - WINDOW_1M_SECONDS < ts
    /\ \A ts \in BucketKeys(zoneState.window5m) : k - WINDOW_5M_SECONDS < ts

\* C4 as stated: after an event at t is processed, with k = floor(t/1000),
\* both windows of the zone hold only buckets with secondKey in (k - size, k].
C4_BucketsWithinAnchoredWindow ==
    [][\A z \in Zones, t \in Times, l \in Loads, c \in Coords :
            Receive(z, t, l, c) =>
                WindowsWithin(zoneStates'[z], t \div MS_PER_SECOND)]_vars

\* C4 amended: after an event at t is processed, with k = floor(t/1000), both
\* windows of the zone hold only buckets with secondKey > k - size.
C4_NoExpiredBucketAfterAdd ==
    [][\A z \in Zones, t \in Times, l \in Loads, c \in Coords :
            Receive(z, t, l, c) =>
                WindowsNotExpired(zoneStates'[z], t \div MS_PER_SECOND)]_vars

\* The in-flight call handles an event older than a bucket the zone's windows
\* already hold, and both windows have been updated with it.
C4_Witness ==
    /\ pc \in {"publish", "hset"}
    /\ \E ts \in BucketKeys(zoneStates[cur.zoneId].window5m) :
            ts > cur.eventTimestamp \div MS_PER_SECOND
    /\ cur.eventTimestamp \div MS_PER_SECOND
            \in BucketKeys(zoneStates[cur.zoneId].window1m)

WindowTotalsMatch(window) ==
    /\ window.totalSum =
            SumOf([ts \in BucketKeys(window) |-> window.buckets[ts].sum],
                  BucketKeys(window))
    /\ window.totalCount =
            SumOf([ts \in BucketKeys(window) |-> window.buckets[ts].count],
                  BucketKeys(window))
    /\ window.totalCount >= 0

\* C5: in every reachable state, for both windows of every zone, totalSum is
\* the sum of the bucket sums, totalCount the sum of the bucket counts, and
\* totalCount >= 0.
C5_TotalsMatchBuckets ==
    \A z \in DOMAIN zoneStates :
        /\ WindowTotalsMatch(zoneStates[z].window1m)
        /\ WindowTotalsMatch(zoneStates[z].window5m)

\* The 1-minute window has evicted events the 5-minute window still holds,
\* and holds a bucket older than its newest one (an out-of-order add).
C5_Witness ==
    \E z \in DOMAIN zoneStates :
        /\ zoneStates[z].window1m.totalCount < zoneStates[z].window5m.totalCount
        /\ Cardinality(BucketKeys(zoneStates[z].window1m)) >= 2
        /\ zoneStates[z].window1m.totalSum > 0

\* C6: whenever no call is in flight, the emitted alerts and every zone's
\* state are those of the replay of the same ordered stream from a fresh
\* state, whatever publishes and store writes failed in either run.
C6_ReplayIsIdentical ==
    pc = "idle" =>
        /\ alertLog = replay.alerts
        /\ zoneStates = replay.zoneStates

\* A run in which a publish failed and a store write failed, with two alerts
\* emitted.
C6_Witness ==
    /\ pc = "idle"
    /\ Len(alertLog) >= 2
    /\ Len(published) < Len(alertLog)
    /\ \E z \in DOMAIN zoneStates :
            z \notin DOMAIN redisHash \/ redisHash[z].state # zoneStates[z].currentState

\* The timestamp a confirmation is measured from on a call: the timer, or the
\* call's own timestamp when the timer is nil.
ArmedAt(timer, timestamp) == IF IsNull(timer) THEN timestamp ELSE Val(timer)

\* C7: on a call in NORMAL with a5 >= 0.75 and timestamp t, stressedSince
\* counts from t if it was nil; the zone turns STRESSED on this call exactly
\* when t - stressedSince >= 60 000, and the timer is then cleared, else the
\* zone stays NORMAL with the timer kept; with a5 < 0.75 the zone stays NORMAL.
C7_NormalConfirmation ==
    \A n \in DOMAIN sm.calls :
        LET c == sm.calls[n]
            armed == ArmedAt(c.before.stressedSince, c.timestamp)
        IN c.before.currentState = "NORMAL" =>
            /\ c.avg5m.num >= 75 * c.avg5m.den =>
                /\ c.after.currentState = "STRESSED" <=> c.timestamp - armed >= 60000
                /\ c.after.currentState = "STRESSED" => IsNull(c.after.stressedSince)
                /\ c.after.currentState # "STRESSED" =>
                        /\ c.after.currentState = "NORMAL"
                        /\ c.after.stressedSince = Some(armed)
            /\ c.avg5m.num < 75 * c.avg5m.den => c.after.currentState = "NORMAL"

\* A call at exactly 60 000 ms after the timer, with a5 exactly 0.75, turned
\* the zone STRESSED.
C7_Witness ==
    \E n \in DOMAIN sm.calls :
        /\ sm.calls[n].before.currentState = "NORMAL"
        /\ sm.calls[n].before.stressedSince = Some(0)
        /\ sm.calls[n].timestamp = 60000
        /\ sm.calls[n].avg5m = [num |-> 75, den |-> 1]
        /\ sm.calls[n].after.currentState = "STRESSED"

\* C8: on a call in STRESSED with a1 >= 0.90 and timestamp t, criticalSince
\* counts from t if it was nil; the zone turns CRITICAL on this call exactly
\* when t - criticalSince >= 20 000, and the timer is then cleared, else the
\* zone stays STRESSED with the timer kept; with a1 < 0.90 the zone does not
\* turn CRITICAL.
C8_StressedConfirmation ==
    \A n \in DOMAIN sm.calls :
        LET c == sm.calls[n]
            armed == ArmedAt(c.before.criticalSince, c.timestamp)
        IN c.before.currentState = "STRESSED" =>
            /\ c.avg1m.num >= 90 * c.avg1m.den =>
                /\ c.after.currentState = "CRITICAL" <=> c.timestamp - armed >= 20000
                /\ c.after.currentState = "CRITICAL" => IsNull(c.after.criticalSince)
                /\ c.after.currentState # "CRITICAL" =>
                        /\ c.after.currentState = "STRESSED"
                        /\ c.after.criticalSince = Some(armed)
            /\ c.avg1m.num < 90 * c.avg1m.den => c.after.currentState # "CRITICAL"

\* A call at exactly 20 000 ms after the timer, with a1 exactly 0.90, turned
\* the zone CRITICAL.
C8_Witness ==
    \E n \in DOMAIN sm.calls :
        /\ sm.calls[n].before.currentState = "STRESSED"
        /\ sm.calls[n].before.criticalSince = Some(0)
        /\ sm.calls[n].timestamp = 20000
        /\ sm.calls[n].avg1m = [num |-> 90, den |-> 1]
        /\ sm.calls[n].after.currentState = "CRITICAL"

\* C9: a call in NORMAL with a5 < 0.75 clears stressedSince and a call in
\* STRESSED with a1 < 0.90 clears criticalSince; and a call turns the zone
\* STRESSED (CRITICAL) only if some earlier call j has a timestamp at least
\* 60 000 ms (20 000 ms) before it and every call from j to it was made in
\* NORMAL with a5 >= 0.75 (in STRESSED with a1 >= 0.90).
C9_BrokenConditionResetsTimer ==
    \A n \in DOMAIN sm.calls :
        LET c == sm.calls[n]
        IN /\ (c.before.currentState = "NORMAL" /\ c.avg5m.num < 75 * c.avg5m.den)
                => IsNull(c.after.stressedSince)
           /\ (c.before.currentState = "STRESSED" /\ c.avg1m.num < 90 * c.avg1m.den)
                => IsNull(c.after.criticalSince)
           /\ (c.before.currentState = "NORMAL" /\ c.after.currentState = "STRESSED")
                => \E j \in 1..n :
                     /\ c.timestamp - sm.calls[j].timestamp >= 60000
                     /\ \A i \in j..n :
                          /\ sm.calls[i].before.currentState = "NORMAL"
                          /\ sm.calls[i].avg5m.num >= 75 * sm.calls[i].avg5m.den
           /\ (c.before.currentState = "STRESSED" /\ c.after.currentState = "CRITICAL")
                => \E j \in 1..n :
                     /\ c.timestamp - sm.calls[j].timestamp >= 20000
                     /\ \A i \in j..n :
                          /\ sm.calls[i].before.currentState = "STRESSED"
                          /\ sm.calls[i].avg1m.num >= 90 * sm.calls[i].avg1m.den

\* The timer was started, a condition-breaking call cleared it, a later call
\* started it again and the call a full confirmation time after that one
\* turned the zone STRESSED.
C9_Witness ==
    /\ Len(sm.calls) = 4
    /\ sm.calls[1].before.currentState = "NORMAL"
    /\ ~IsNull(sm.calls[1].after.stressedSince)
    /\ IsNull(sm.calls[2].after.stressedSince)
    /\ sm.calls[2].after.currentState = "NORMAL"
    /\ ~IsNull(sm.calls[3].after.stressedSince)
    /\ sm.calls[4].after.currentState = "STRESSED"

\* C10: a call in CRITICAL with a5 <= 0.80 and timestamp t leaves the zone
\* STRESSED (not NORMAL, however low a5 is) with criticalSince nil and
\* stressedSince = t; with a5 > 0.80 the zone stays CRITICAL and both timers
\* are as they were.
C10_CriticalDowngrade ==
    \A n \in DOMAIN sm.calls :
        LET c == sm.calls[n]
        IN c.before.currentState = "CRITICAL" =>
            /\ c.avg5m.num <= 80 * c.avg5m.den =>
                /\ c.after.currentState = "STRESSED"
                /\ IsNull(c.after.criticalSince)
                /\ c.after.stressedSince = Some(c.timestamp)
            /\ c.avg5m.num > 80 * c.avg5m.den => c.after = c.before

\* A CRITICAL zone with both timers set met a5 = 0.64, below the NORMAL
\* threshold too, and is STRESSED.
C10_Witness ==
    \E n \in DOMAIN sm.calls :
        /\ sm.calls[n].before.currentState = "CRITICAL"
        /\ sm.calls[n].before.stressedSince = Some(1)
        /\ sm.calls[n].before.criticalSince = Some(1)
        /\ sm.calls[n].avg5m = [num |-> 64, den |-> 1]
        /\ sm.calls[n].timestamp = 60000
        /\ sm.calls[n].after.currentState = "STRESSED"

\* C11: on a call in STRESSED the rules apply in priority order: with
\* a1 >= 0.90 the zone stays STRESSED or turns CRITICAL and never turns NORMAL,
\* whatever a5 is; else with a5 <= 0.65 the zone turns NORMAL with both timers
\* nil; else the zone stays STRESSED with criticalSince nil and stressedSince
\* as it was.
C11_StressedPriorityOrder ==
    \A n \in DOMAIN sm.calls :
        LET c == sm.calls[n]
            critical == c.avg1m.num >= 90 * c.avg1m.den
            recovered == c.avg5m.num <= 65 * c.avg5m.den
        IN c.before.currentState = "STRESSED" =>
            /\ critical => c.after.currentState \in {"STRESSED", "CRITICAL"}
            /\ (~critical /\ recovered) =>
                    /\ c.after.currentState = "NORMAL"
                    /\ IsNull(c.after.stressedSince)
                    /\ IsNull(c.after.criticalSince)
            /\ (~critical /\ ~recovered) =>
                    /\ c.after.currentState = "STRESSED"
                    /\ IsNull(c.after.criticalSince)
                    /\ c.after.stressedSince = c.before.stressedSince

\* A STRESSED zone with both timers set met a1 = 0.90 together with
\* a5 = 0.64 before the confirmation time had passed, and is still STRESSED.
C11_Witness ==
    \E n \in DOMAIN sm.calls :
        /\ sm.calls[n].before.currentState = "STRESSED"
        /\ sm.calls[n].before.stressedSince = Some(1)
        /\ sm.calls[n].before.criticalSince = Some(1)
        /\ sm.calls[n].avg1m = [num |-> 90, den |-> 1]
        /\ sm.calls[n].avg5m = [num |-> 64, den |-> 1]
        /\ sm.calls[n].timestamp = 20000
        /\ sm.calls[n].after.currentState = "STRESSED"

\* The zone's lastAlertTimestamp and state in the map zs (a zone not yet in
\* the map is a fresh one).
LastAlertOf(zs, zoneId) ==
    IF zoneId \in DOMAIN zs THEN zs[zoneId].lastAlertTimestamp ELSE Null

StateOf(zs, zoneId) ==
    IF zoneId \in DOMAIN zs THEN zs[zoneId].currentState ELSE "NORMAL"

GuardOpen(last, t) == IsNull(last) \/ t - Val(last) > 1000

NoAlertInStep ==
    /\ alertLog' = alertLog
    /\ \A z \in DOMAIN zoneStates' :
            zoneStates'[z].lastAlertTimestamp = LastAlertOf(zoneStates, z)

\* C12: an event at t goes on to emit an alert exactly when the zone's state
\* changes on it and lastAlertTimestamp is nil or t - lastAlertTimestamp >
\* 1000; the step that emits the alert sets lastAlertTimestamp to t, and no
\* other step changes lastAlertTimestamp or emits an alert.
C12_AlertIffChangedAndGuardOpen ==
    [][/\ (pc = "idle" /\ pc' = "publish") =>
            /\ StateOf(zoneStates, cur'.zoneId) # cur'.nextState
            /\ GuardOpen(LastAlertOf(zoneStates, cur'.zoneId), cur'.eventTimestamp)
            /\ NoAlertInStep
       /\ (pc = "idle" /\ pc' = "hset") =>
            /\ StateOf(zoneStates, cur'.zoneId) # cur'.nextState
            /\ ~GuardOpen(LastAlertOf(zoneStates, cur'.zoneId), cur'.eventTimestamp)
            /\ NoAlertInStep
       /\ (pc = "idle" /\ pc' = "idle") =>
            /\ \A z \in DOMAIN zoneStates' :
                    zoneStates'[z].currentState = StateOf(zoneStates, z)
            /\ NoAlertInStep
       /\ pc = "publish" =>
            /\ Len(alertLog') = Len(alertLog) + 1
            /\ alertLog'[Len(alertLog')].zoneId = cur.zoneId
            /\ alertLog'[Len(alertLog')].timestamp = cur.eventTimestamp
            /\ zoneStates'[cur.zoneId].lastAlertTimestamp = Some(cur.eventTimestamp)
            /\ zoneStates'[cur.zoneId].currentState = cur.nextState
       /\ pc \in {"hset", "geoadd"} => NoAlertInStep]_vars

\* The zone turned CRITICAL on an event exactly 1000 ms after its last alert:
\* the state is written without an alert.
C12_Witness ==
    /\ pc = "hset"
    /\ cur.previousState = "STRESSED"
    /\ cur.nextState = "CRITICAL"
    /\ zoneStates[cur.zoneId].currentState = "CRITICAL"
    /\ zoneStates[cur.zoneId].lastAlertTimestamp = Some(cur.eventTimestamp - 1000)
    /\ Len(alertLog) = 1

\* The average lies strictly between 0.65 and 0.75.
InHysteresisBand(avg) == 65 * avg.den < avg.num /\ avg.num < 75 * avg.den

\* C13 as stated: no event with a5 strictly between 0.65 and 0.75 changes the
\* state of a STRESSED zone.
C13_NoTransitionInBand ==
    (pc # "idle" /\ cur.previousState = "STRESSED" /\ InHysteresisBand(cur.avg5m))
        => cur.nextState = "STRESSED"

\* C13 amended: no event with a5 strictly between 0.65 and 0.75 and a1 below
\* 0.90 changes the state of a STRESSED zone, and none with a5 in that band
\* turns it NORMAL.
C13_NoTransitionInBandBelowCritical ==
    (pc # "idle" /\ cur.previousState = "STRESSED" /\ InHysteresisBand(cur.avg5m))
        => /\ cur.nextState # "NORMAL"
           /\ cur.avg1m.num < 90 * cur.avg1m.den => cur.nextState = "STRESSED"

\* The zone has been STRESSED since its only alert, a later event left a5
\* inside the band with a1 below 0.90, and the zone is still STRESSED.
C13_Witness ==
    /\ pc = "idle"
    /\ "Z-1" \in DOMAIN zoneStates
    /\ zoneStates["Z-1"].currentState = "STRESSED"
    /\ Len(alertLog) = 1
    /\ alertLog[1].currentState = "STRESSED"
    /\ eventCounter > 2
    /\ InHysteresisBand(CalculateAverage(zoneStates["Z-1"].window5m))
    /\ LET a1 == CalculateAverage(zoneStates["Z-1"].window1m)
       IN a1.num < 90 * a1.den

DownwardPairs == {<<"STRESSED", "NORMAL">>, <<"CRITICAL", "STRESSED">>}

UpwardPairs == {<<"NORMAL", "STRESSED">>, <<"STRESSED", "CRITICAL">>}

\* The averages (hundredths) the monotonicity comparison ranges over.
MonoAvg1m == SmAvg1m \cup {0, 100}

MonoAvg5m == SmAvg5m \cup {0, 100}

\* The transition getNextState makes from stateData with the given averages.
TransitionWith(stateData, a1, a5, t) ==
    <<stateData.currentState,
      GetNextState(stateData.currentState, [num |-> a1, den |-> 1],
                   [num |-> a5, den |-> 1], t, stateData).next>>

\* C14: if a call with averages (a1, a5) fires no downward transition, the
\* same call with any a1' >= a1 and a5' >= a5 fires none; if it fires no
\* upward transition, the same call with any a1' <= a1 and a5' <= a5 fires
\* none.
C14_MonotoneThresholds ==
    \A n \in DOMAIN sm.calls :
        LET c == sm.calls[n]
            fired == <<c.before.currentState, c.after.currentState>>
        IN /\ fired \notin DownwardPairs =>
                \A a1 \in MonoAvg1m, a5 \in MonoAvg5m :
                    (a1 >= c.avg1m.num /\ a5 >= c.avg5m.num) =>
                        TransitionWith(c.before, a1, a5, c.timestamp)
                            \notin DownwardPairs
           /\ fired \notin UpwardPairs =>
                \A a1 \in MonoAvg1m, a5 \in MonoAvg5m :
                    (a1 <= c.avg1m.num /\ a5 <= c.avg5m.num) =>
                        TransitionWith(c.before, a1, a5, c.timestamp)
                            \notin UpwardPairs

\* A STRESSED zone stayed STRESSED at a1 = 0.89, a5 = 0.66, one hundredth
\* above the averages at which it would have gone to NORMAL.
C14_Witness ==
    \E n \in DOMAIN sm.calls :
        /\ sm.calls[n].before.currentState = "STRESSED"
        /\ sm.calls[n].avg1m = [num |-> 89, den |-> 1]
        /\ sm.calls[n].avg5m = [num |-> 66, den |-> 1]
        /\ sm.calls[n].after.currentState = "STRESSED"
        /\ TransitionWith(sm.calls[n].before, 89, 65, sm.calls[n].timestamp)
                \in DownwardPairs

\* The alert a is the transition previous -> next.
IsTransition(a, previous, next) ==
    a.previousState = previous /\ a.currentState = next

\* C15: the clean ramp emits NORMAL -> STRESSED at t = 1 060 000, then
\* STRESSED -> CRITICAL at t = 1 080 000, and nothing else up to the end of
\* its 400 events.
C15_CleanRampAlerts ==
    eventCounter <= RampEvents =>
        /\ Len(alertLog) <= 2
        /\ Len(alertLog) >= 1 =>
                /\ IsTransition(alertLog[1], "NORMAL", "STRESSED")
                /\ alertLog[1].timestamp = 1060000
        /\ Len(alertLog) >= 2 =>
                /\ IsTransition(alertLog[2], "STRESSED", "CRITICAL")
                /\ alertLog[2].timestamp = 1080000
        /\ (eventCounter = RampEvents /\ pc = "idle") => Len(alertLog) = 2

\* C16: once the ramp has left the zone CRITICAL with two alerts, the
\* recovery events emit exactly two more.  The zone stays CRITICAL while every
\* recovery event so far left avg5m > 0.80; the third alert is CRITICAL ->
\* STRESSED on an event with avg5m <= 0.80; the zone then stays STRESSED while
\* every later event left avg5m > 0.65; the fourth alert is STRESSED -> NORMAL
\* on an event with avg5m <= 0.65; and there is no fifth.
C16_RecoveryAlerts ==
    (eventCounter >= RampEvents /\ pc = "idle") =>
        LET zone == zoneStates["Z-1"]
            a5 == CalculateAverage(zone.window5m)
        IN /\ Len(alertLog) \in 2..4
           /\ Len(alertLog) = 2 =>
                /\ zone.currentState = "CRITICAL"
                /\ eventCounter > RampEvents => a5.num > 80 * a5.den
           /\ Len(alertLog) >= 3 =>
                /\ IsTransition(alertLog[3], "CRITICAL", "STRESSED")
                /\ alertLog[3].avg5m.num <= 80 * alertLog[3].avg5m.den
           /\ Len(alertLog) = 3 =>
                /\ zone.currentState = "STRESSED"
                /\ a5.num > 65 * a5.den
           /\ Len(alertLog) = 4 =>
                /\ IsTransition(alertLog[4], "STRESSED", "NORMAL")
                /\ alertLog[4].avg5m.num <= 65 * alertLog[4].avg5m.den
                /\ alertLog[4].timestamp > alertLog[3].timestamp
                /\ zone.currentState = "NORMAL"
           /\ eventCounter = RampEvents + RecoveryEvents => Len(alertLog) = 4

\* All ramp and recovery events are processed and the zone is back to NORMAL
\* after four alerts.
C16_Witness ==
    /\ pc = "idle"
    /\ eventCounter = RampEvents + RecoveryEvents
    /\ Len(alertLog) = 4
    /\ IsTransition(alertLog[3], "CRITICAL", "STRESSED")
    /\ IsTransition(alertLog[4], "STRESSED", "NORMAL")
    /\ zoneStates["Z-1"].currentState = "NORMAL"

\* C17 as stated: in the confirmation-reset scenario NORMAL -> STRESSED fires
\* no earlier than 60 000 ms after the load-0.10 event.
C17_FiresOnlyAfterFullSecondRun ==
    \A i \in DOMAIN alertLog :
        IsTransition(alertLog[i], "NORMAL", "STRESSED") =>
            alertLog[i].timestamp >= ResetEvent(ResetFirstRun).timestamp + 60000

\* C17 amended: in the confirmation-reset scenario the load-0.10 event leaves
\* stressedSince at the timestamp of the first event (avg5m stays >= 0.75),
\* and the only alert of the scenario is NORMAL -> STRESSED on the event
\* 60 000 ms after the first one.
C17_FiresSixtySecondsAfterFirstEvent ==
    /\ Len(alertLog) <= 1
    /\ Len(alertLog) = 1 =>
            /\ IsTransition(alertLog[1], "NORMAL", "STRESSED")
            /\ alertLog[1].timestamp = ResetEvent(0).timestamp + 60000
    /\ (pc = "idle" /\ eventCounter > 0 /\ Len(alertLog) = 0) =>
            /\ zoneStates["Z-1"].currentState = "NORMAL"
            /\ zoneStates["Z-1"].stressedSince = Some(ResetEvent(0).timestamp)
    /\ (pc = "idle" /\ eventCounter = ResetFirstRun + 1 + ResetSecondRun) =>
            Len(alertLog) = 1

\* The load-0.10 event has just been processed: avg5m is still at least 0.75
\* and the timer still holds the first event's timestamp.
C17_Witness ==
    /\ pc = "idle"
    /\ eventCounter = ResetFirstRun + 1
    /\ zoneStates["Z-1"].currentState = "NORMAL"
    /\ zoneStates["Z-1"].stressedSince = Some(0)
    /\ AvgGE(CalculateAverage(zoneStates["Z-1"].window5m), 75)
    /\ ~AvgGE(CalculateAverage(zoneStates["Z-1"].window5m), 80)

\* The window new is the window old with one sample of the given load added
\* to the bucket of second k: that bucket grew by the sample, every other
\* bucket is kept as it was, and the average is that of all samples.
InsertedInOwnBucket(old, new, k, load) ==
    /\ k \in DOMAIN old.buckets
    /\ k \in DOMAIN new.buckets
    /\ new.buckets[k].count = old.buckets[k].count + 1
    /\ new.buckets[k].sum = old.buckets[k].sum + load
    /\ \A ts \in DOMAIN old.buckets :
            ts # k => (ts \in DOMAIN new.buckets /\ new.buckets[ts] = old.buckets[ts])
    /\ DOMAIN new.buckets = DOMAIN old.buckets
    /\ CalculateAverage(new).num * (old.totalCount + 1)
            = CalculateAverage(new).den * (old.totalSum + load)

\* C18: in the scenario of 60 events at 1 Hz with load 0.95 followed by one
\* older event, the older event is added to the bucket of its own second in
\* both windows, no bucket (the newer ones included) is evicted, both averages
\* include it, and no step of the scenario changes the zone's state or emits
\* an alert.
C18_OutOfOrderInsertion ==
    [][/\ (eventCounter = 60 /\ eventCounter' = 61) =>
            \E d \in LateSeconds, l \in LateLoads :
                /\ InsertedInOwnBucket(zoneStates["Z-1"].window1m,
                                       zoneStates'["Z-1"].window1m, 59 - d, l)
                /\ InsertedInOwnBucket(zoneStates["Z-1"].window5m,
                                       zoneStates'["Z-1"].window5m, 59 - d, l)
       /\ zoneStates'["Z-1"].currentState = "NORMAL"
       /\ alertLog' = <<>>
       /\ pc' = "idle"]_vars

\* The event 30 s older than the last one, with load 0.00, is in the bucket
\* of its own second next to the sample that was there; the newest bucket is
\* still in the 1-minute window and the zone is NORMAL.
C18_Witness ==
    /\ pc = "idle"
    /\ eventCounter = 61
    /\ zoneStates["Z-1"].window1m.buckets[29].count = 2
    /\ zoneStates["Z-1"].window1m.buckets[29].sum = 95
    /\ zoneStates["Z-1"].window1m.buckets[59].count = 1
    /\ zoneStates["Z-1"].window5m.totalCount = 61
    /\ zoneStates["Z-1"].currentState = "NORMAL"
    /\ alertLog = <<>>

\* The zone's entry in the map zs, or none.
EntryOf(zs, zoneId) == IF zoneId \in DOMAIN zs THEN <<zs[zoneId]>> ELSE <<>>

\* No call for the zone is in flight.
Settled(zoneId) == pc = "idle" \/ cur.zoneId # zoneId

\* C19: a step that changes a zone's ZoneState belongs to an event of that
\* zone; and whenever no call for a zone is in flight, the zone's ZoneState and
\* its sequence of alerts are those of a processor that was fed the zone's
\* events alone, whatever events of the other zone came in between.  Z-B, at
\* load 0.10, has no alert and stays NORMAL.
C19_ZoneIsolation ==
    [][/\ \A z \in IsoZones :
            EntryOf(zoneStates', z) # EntryOf(zoneStates, z) =>
                IF pc = "idle" THEN replay'[z] # replay[z] ELSE cur.zoneId = z
       /\ \A z \in IsoZones :
            Settled(z)' =>
                /\ EntryOf(zoneStates', z) = EntryOf(replay'[z].zoneStates, z)
                /\ SelectSeq(alertLog', LAMBDA a : a.zoneId = z) = replay'[z].alerts
       /\ SelectSeq(alertLog', LAMBDA a : a.zoneId = "Z-B") = <<>>
       /\ "Z-B" \in DOMAIN zoneStates' => zoneStates'["Z-B"].currentState = "NORMAL"]_vars

\* Z-A went NORMAL -> STRESSED -> CRITICAL as in the clean ramp while events
\* of Z-B were processed between its own.
C19_Witness ==
    /\ pc = "idle"
    /\ "Z-A" \in DOMAIN zoneStates
    /\ "Z-B" \in DOMAIN zoneStates
    /\ zoneStates["Z-A"].currentState = "CRITICAL"
    /\ Len(alertLog) = 2
    /\ IsTransition(alertLog[1], "NORMAL", "STRESSED")
    /\ IsTransition(alertLog[2], "STRESSED", "CRITICAL")
    /\ zoneStates["Z-B"].window5m.totalCount = 2
    /\ zoneStates["Z-B"].currentState = "NORMAL"

\* C20: the offset moves, by one, only in a step that ends the handling of an
\* event; while a publish or a Redis write of an event is still awaited the
\* offset has not moved past that event, and once handling has ended it
\* stands right after it.
C20_OffsetAfterSideEffects ==
    [][/\ offset' # offset => (offset' = offset + 1 /\ pc' = "idle")
       /\ pc' \in {"publish", "hset", "geoadd"} => offset' = eventCounter' - 1
       /\ pc' = "idle" => offset' = eventCounter']_vars

\* The alert of the second event is on the topic, its hash is written and
\* its geoAdd is still awaited: the offset still stands before the event.
C20_Witness ==
    /\ pc = "geoadd"
    /\ eventCounter = 2
    /\ offset = 1
    /\ Len(published) = 1
    /\ cur.zoneId \in DOMAIN redisHash

\* The step is the one in which client.hSet throws and the error leaves
\* handleEvent: the call ends straight from the hSet.
HandlerThrows == pc = "hset" /\ pc' = "idle"

\* C21 as stated: when the event handler throws, the offset of the event is
\* not advanced.
C21_FailedEventKeepsOffset ==
    [][HandlerThrows => offset' = offset]_vars

\* C21 amended: when the event handler throws, eachMessage resolves all the
\* same: the offset moves past the event and the consumer is free for the next
\* message, with no second run of the handler for the failed event.
C21_FailedEventIsSkipped ==
    [][HandlerThrows =>
            /\ offset' = offset + 1
            /\ offset' = eventCounter'
            /\ eventCounter' = eventCounter
            /\ cur' = NoCall]_vars

\* The handler threw on the first transition of the zone: nothing is stored,
\* yet the offset stands after the event and a later event has been handled.
C21_Witness ==
    /\ pc = "idle"
    /\ Len(alertLog) = 1
    /\ redisHash = <<>>
    /\ offset = eventCounter
    /\ eventCounter = 3
    /\ alertLog[1].timestamp = 60000
    /\ 80 \in DOMAIN zoneStates["Z-1"].window1m.buckets

\* A decoded load outside the schema's range [0, 1].
OutOfRange(load) == load < 0 \/ load > 100

\* C22: an event that decodes but whose load is outside [0, 1] is dropped:
\* delivering it changes no window, timer or state of any zone (and starts
\* no alert or write), and its offset is advanced.
C22_OutOfRangeLoadIsDropped ==
    [][\A z \in Zones, t \in RangeTimes, l \in RangeLoads, c \in Coords :
            (OutOfRange(l) /\ Deliver(z, t, l, c)) =>
                /\ zoneStates' = zoneStates
                /\ pc' = "idle"
                /\ offset' = offset + 1]_vars

\* Number of messages of the log below an offset that carry an event.
RECURSIVE EventsBelow(_)
EventsBelow(i) ==
    IF i = 0 THEN 0
    ELSE EventsBelow(i - 1) + (IF LogKind(i - 1) = "event" THEN 1 ELSE 0)

\* C23: a message that carries no value or cannot be decoded is skipped: the
\* step that consumes it does not enter the handler and changes no zone
\* state, alert or store record, and it advances the offset; the handler
\* has been entered exactly once for every event message consumed so far,
\* those behind a skipped message included.
C23_UndecodableIsSkipped ==
    [][/\ (pc = "idle" /\ LogKind(offset) # "event") =>
                /\ offset' = offset + 1
                /\ pc' = "idle"
                /\ UNCHANGED <<zoneStates, zoneCoordinates, eventCounter, cur,
                               alertLog, published, redisHash, redisGeo>>
       /\ pc' = "idle" => eventCounter' = EventsBelow(offset')]_vars

\* An event is in flight behind one message without event: the handler has
\* been entered twice at offset 2, and the zone has alerted on it.
C23_Witness ==
    /\ pc = "publish"
    /\ offset = 2
    /\ eventCounter = 2
    /\ cur.previousState = "NORMAL"
    /\ cur.nextState = "STRESSED"

\* C24: the step that ends a publish attempt, failed or not, leaves the
\* zone's state, timers and lastAlertTimestamp and the emitted alerts as the
\* failure-free replay of the stream has them, and goes on to the store write
\* of the same call; the publish is never attempted again for that call, and
\* the call ends with its offset advanced.
C24_PublishFailureChangesNothing ==
    [][/\ pc = "publish" =>
                /\ pc' = "hset"
                /\ cur' = cur
                /\ zoneStates'[cur.zoneId] = replay.zoneStates[cur.zoneId]
                /\ alertLog' = replay.alerts
                /\ published' \in {published, Append(published, AlertOf(cur))}
       /\ pc \in {"hset", "geoadd"} =>
                /\ pc' \in {"geoadd", "idle"}
                /\ published' = published
                /\ pc' = "idle" => offset' = offset + 1]_vars

\* The publish of the first alert failed and the call went on: its offset
\* advanced, and a later event of the zone alerted on the state and
\* lastAlertTimestamp the failed call left.
C24_Witness ==
    /\ pc = "idle"
    /\ offset = eventCounter
    /\ Len(alertLog) = 2
    /\ published = <<alertLog[2]>>
    /\ alertLog[2].previousState = alertLog[1].currentState

\* C25: no step of a store write, failed or not, changes a zone's in-memory
\* data, and the step that ends the call advances the offset; a step that
\* changes the stored records changes only the record of the zone of the
\* call in flight, and leaves it with the zone's in-memory state.
C25_WriteFailureSelfHeals ==
    [][/\ pc \in {"hset", "geoadd"} =>
                /\ zoneStates' = zoneStates
                /\ pc' = "idle" => offset' = offset + 1
       /\ redisHash' # redisHash =>
                /\ pc = "hset"
                /\ \A z \in DOMAIN redisHash' :
                        z # cur.zoneId =>
                            z \in DOMAIN redisHash /\ redisHash'[z] = redisHash[z]
                /\ redisHash'[cur.zoneId].state = zoneStates'[cur.zoneId].currentState]_vars

\* The write of the zone's first state change failed (no geo entry was ever
\* made), the zone went on to CRITICAL all the same, and the hash of that
\* second change has just been written with the in-memory state.
C25_Witness ==
    /\ pc = "geoadd"
    /\ cur.previousState = "STRESSED"
    /\ zoneStates[cur.zoneId].currentState = "CRITICAL"
    /\ redisHash[cur.zoneId].state = "CRITICAL"
    /\ cur.zoneId \notin DOMAIN redisGeo
    /\ offset = eventCounter - 1

\* C26: a publish is awaited only at the start of a call and no store record
\* changes while it is awaited; the store write begins when the publish
\* attempt has ended (or at once when no alert is due), with the zone's
\* in-memory state already the new state of a changed state, and the record
\* written carries that new state.
C26_PublishThenStateThenWrite ==
    [][/\ pc' = "publish" => pc = "idle"
       /\ pc = "publish" =>
                /\ pc' = "hset"
                /\ redisHash' = redisHash
                /\ redisGeo' = redisGeo
       /\ pc' = "hset" =>
                /\ pc \in {"idle", "publish"}
                /\ cur'.stateChanged
                /\ zoneStates'[cur'.zoneId].currentState = cur'.nextState
       /\ (redisHash' # redisHash \/ redisGeo' # redisGeo) =>
                /\ pc \in {"hset", "geoadd"}
                /\ redisHash'[cur.zoneId].state = cur.nextState]_vars

\* The alert of the transition is on the topic, the zone is already
\* STRESSED in memory, and the write of the record is about to begin.
C26_Witness ==
    /\ pc = "hset"
    /\ published = <<AlertOf(cur)>>
    /\ cur.previousState = "NORMAL"
    /\ zoneStates[cur.zoneId].currentState = "STRESSED"
    /\ redisHash = <<>>

\* C27: the record and the geo-index entry written for a transition carry
\* the latitude and longitude of the event in flight, the one that triggered
\* the transition.
C27_RecordCarriesTriggeringCoordinates ==
    [][/\ (pc = "hset" /\ pc' = "geoadd") =>
                /\ redisHash'[cur.zoneId].latitude = cur.latitude
                /\ redisHash'[cur.zoneId].longitude = cur.longitude
       /\ redisGeo' # redisGeo =>
                redisGeo'[cur.zoneId] = <<cur.longitude, cur.latitude>>]_vars

\* C28: a handleEvent call starts only when no call is in flight and every
\* earlier message has been resolved; a call in flight stays the same call,
\* through its suspension at the publish and at the store write, until the
\* step that ends it.
C28_OneCallAtATime ==
    [][/\ eventCounter' # eventCounter =>
                /\ eventCounter' = eventCounter + 1
                /\ pc = "idle"
                /\ cur = NoCall
                /\ offset = eventCounter
       /\ pc # "idle" =>
                \/ pc' # "idle" /\ cur' = cur
                \/ pc' = "idle" /\ cur' = NoCall]_vars

\* An earlier call of the zone has gone through its publish and its whole
\* store write, and a later call of the zone is suspended at its publish.
C28_Witness ==
    /\ pc = "publish"
    /\ cur.previousState = "STRESSED"
    /\ cur.zoneId \in DOMAIN redisGeo
    /\ Len(published) = 1
    /\ published[1].zoneId = cur.zoneId
    /\ offset = eventCounter - 1

\* s can be had from t by dropping elements of t, the order kept.
RECURSIVE IsSubsequence(_, _)
IsSubsequence(s, t) ==
    IF s = <<>> THEN TRUE
    ELSE IF t = <<>> THEN FALSE
    ELSE IF Head(s) = Head(t) THEN IsSubsequence(Tail(s), Tail(t))
    ELSE IsSubsequence(s, Tail(t))

\* C29: the topic only ever grows at its end, by the alert of the event in
\* flight, which is also the last alert emitted; so the alerts on the topic
\* stand in the order of the events that raised them (the order of the
\* emitted alerts, less those whose publish failed).
C29_AlertsInOffsetOrder ==
    [][/\ published' # published =>
                /\ pc = "publish"
                /\ offset = eventCounter - 1
                /\ published' = Append(published, AlertOf(cur))
                /\ alertLog' = Append(alertLog, AlertOf(cur))
       /\ IsSubsequence(published', alertLog')]_vars

\* Two alerts of the zone are on the topic, the one of the earlier event
\* first.
C29_Witness ==
    /\ Len(published) = 2
    /\ published = alertLog
    /\ IsTransition(published[1], "NORMAL", "STRESSED")
    /\ IsTransition(published[2], "STRESSED", "CRITICAL")
    /\ published[1].timestamp < published[2].timestamp

\* A zone's in-memory state, NORMAL for a zone not yet created.
CurrentStateIn(states, zoneId) ==
    IF zoneId \in DOMAIN states THEN states[zoneId].currentState ELSE "NORMAL"

\* C30: every step that changes a zone's in-memory state, with or without
\* an alert, takes it along one of the four legal transitions: never from
\* NORMAL to CRITICAL nor from CRITICAL to NORMAL.
C30_StateChangesAreLegal ==
    [][\A z \in DOMAIN zoneStates' :
            CurrentStateIn(zoneStates', z) # CurrentStateIn(zoneStates, z) =>
                <<CurrentStateIn(zoneStates, z), CurrentStateIn(zoneStates', z)>>
                    \in LegalTransitions]_vars

\* The zone has just turned CRITICAL on an event for which no alert was
\* emitted: the only alert so far is the one of NORMAL -> STRESSED.
C30_Witness ==
    /\ pc = "hset"
    /\ cur.previousState = "STRESSED"
    /\ zoneStates[cur.zoneId].currentState = "CRITICAL"
    /\ Len(alertLog) = 1
    /\ alertLog[1].currentState = "STRESSED"

\* C31: the average of a window with totalCount = 0 is 0 (the fraction 0/1,
\* not 0/0), the average of any other window is totalSum / totalCount, and a
\* window no event has been added to is empty with totalSum = 0 and
\* totalCount = 0.
C31_EmptyAverageIsZero ==
    /\ sm.window.totalCount = 0 => sm.average = [num |-> 0, den |-> 1]
    /\ sm.window.totalCount # 0 =>
            /\ sm.average.den > 0
            /\ sm.average.num * sm.window.totalCount
                    = sm.average.den * sm.window.totalSum
    /\ sm.adds = 0 =>
            /\ sm.window.buckets = <<>>
            /\ sm.window.totalSum = 0
            /\ sm.window.totalCount = 0

\* The average of a window just created has been taken, and it is 0.
C31_Witness ==
    /\ sm.adds = 0
    /\ sm.window.totalCount = 0
    /\ sm.average.num = 0
    /\ sm.average.den # 0

\* C32: once a shutdown has begun no event is fetched, the consumer is
\* disconnected only with no event in flight and before the producer and the
\* store client, and the process has exited only with no event in flight and
\* all three disconnected, however many signals it received.
C32_ExitAfterDrainAndDisconnect ==
    /\ ~sm.consumer => ~sm.isRunning
    /\ ~sm.producer => ~sm.consumer
    /\ ~sm.redis => ~sm.producer
    /\ (sm.stop = "producer" /\ ~sm.exited) => pc = "idle"
    /\ sm.exited =>
            /\ pc = "idle"
            /\ ~sm.consumer
            /\ ~sm.producer
            /\ ~sm.redis

\* The second of the last addEvent call on the window.
LastSecond == Val(sm.last).timestamp \div MS_PER_SECOND

\* The second k is outside, or inside, the window anchored at the highest
\* second added so far.
IsLate(k, highest) == ~IsNull(highest) /\ k <= Val(highest) - sm.size

IsInWindow(k, highest) ==
    ~IsNull(highest) /\ Val(highest) - sm.size < k /\ k <= Val(highest)

\* The buckets late events have left in the window.
LateBuckets(window, highest) ==
    {b \in DOMAIN window.buckets : IsLate(b, highest)}

\* The last add was of a late event with no bucket of its own yet: it is now
\* alone in a bucket for its own second.
LateEventInserted ==
    (/\ ~IsNull(sm.last)
     /\ IsLate(LastSecond, Val(sm.last).highest)
     /\ LastSecond \notin DOMAIN Val(sm.last).before.buckets) =>
        /\ LastSecond \in DOMAIN sm.window.buckets
        /\ sm.window.buckets[LastSecond] =
                [timestamp |-> LastSecond, sum |-> Val(sm.last).load, count |-> 1]

\* C33 as stated: a late event is inserted into a fresh bucket for its own
\* second, and the first add after it whose second is inside the window
\* anchored at the highest second seen evicts that bucket.
C33_LateBucketGoneAfterInWindowAdd ==
    /\ LateEventInserted
    /\ (~IsNull(sm.last) /\ IsInWindow(LastSecond, Val(sm.last).highest)) =>
            \A b \in LateBuckets(Val(sm.last).before, Val(sm.last).highest) :
                b \notin DOMAIN sm.window.buckets

\* C33 amended: a late event is inserted into a fresh bucket for its own
\* second, and an add inside the window anchored at the highest second seen
\* evicts that bucket when its second is at least the window size greater
\* than the bucket's, and leaves it in the window otherwise.
C33_LateBucketGoneWhenSizeOlder ==
    /\ LateEventInserted
    /\ (~IsNull(sm.last) /\ IsInWindow(LastSecond, Val(sm.last).highest)) =>
            \A b \in LateBuckets(Val(sm.last).before, Val(sm.last).highest) :
                b \notin DOMAIN sm.window.buckets <=> LastSecond - b >= sm.size

\* After seconds 121 and then 0 were added to a 60 s window, the add of
\* second 120 has evicted the bucket of second 0.
C33_Witness ==
    /\ sm.size = 60
    /\ ~IsNull(sm.last)
    /\ Val(sm.last).highest = Some(121)
    /\ LastSecond = 120
    /\ DOMAIN Val(sm.last).before.buckets = {0, 121}
    /\ DOMAIN sm.window.buckets = {120, 121}

\* C34: with store writes succeeding, every zone of which an event has been
\* processed to its end has a record in the store.
C34_OneRecordPerZone ==
    pc = "idle" => \A z \in DOMAIN zoneStates : z \in DOMAIN redisHash

\* C35: a call goes on to a store write exactly when the zone's state
\* changes on its event: a call that ends at once has changed no state; a
\* call that goes on has a changed state, and reaches the write directly
\* (alert withheld) or through the publish, failed or not; the write then
\* begins with the changed state in memory, and no record is written
\* outside such a call.
C35_WriteIffStateChanged ==
    [][/\ (pc = "idle" /\ pc' = "idle") =>
                \A z \in DOMAIN zoneStates' :
                    CurrentStateIn(zoneStates', z) = CurrentStateIn(zoneStates, z)
       /\ (pc = "idle" /\ pc' # "idle") =>
                /\ pc' \in {"publish", "hset"}
                /\ cur'.previousState = CurrentStateIn(zoneStates, cur'.zoneId)
                /\ cur'.nextState # cur'.previousState
       /\ pc = "publish" =>
                /\ pc' = "hset"
                /\ cur' = cur
       /\ pc' = "hset" =>
                /\ zoneStates'[cur'.zoneId].currentState = cur'.nextState
                /\ cur'.nextState # cur'.previousState
       /\ (redisHash' # redisHash \/ redisGeo' # redisGeo) =>
                pc \in {"hset", "geoadd"}]_vars

\* The publish of the zone's first alert failed and its state was written
\* all the same; now the zone has turned CRITICAL with the alert withheld,
\* and the write of that change is about to begin.
C35_Witness ==
    /\ pc = "hset"
    /\ cur.nextState = "CRITICAL"
    /\ Len(alertLog) = 1
    /\ published = <<>>
    /\ cur.zoneId \in DOMAIN redisHash
    /\ redisHash[cur.zoneId].state = "STRESSED"

\* Two alerts are the same alert for a downstream consumer.
SameAlert(a, b) ==
    /\ a.timestamp = b.timestamp
    /\ a.currentState = b.currentState

\* No two entries of the sequence are the same alert of the same zone.
NoDuplicateIn(entries) ==
    \A i, j \in DOMAIN entries :
        (i # j /\ SameAlert(entries[i], entries[j])) =>
            (/\ "zoneId" \in DOMAIN entries[i]
             /\ entries[i].zoneId # entries[j].zoneId)

\* C36: however often an alert is delivered, the durable store, the global
\* list and every per-zone list hold at most one entry for its (zoneId,
\* timestamp, currentState).
C36_PersistenceIsIdempotent ==
    /\ NoDuplicateIn(sm.zoneAlerts)
    /\ NoDuplicateIn(sm.globalList)
    /\ \A z \in DOMAIN sm.zoneLists : NoDuplicateIn(sm.zoneLists[z])

\* The buckets of the window that are sizeSeconds or more older than k.
SizeOlder(window, k) == {b \in DOMAIN window.buckets : k - b >= sm.size}

\* C37: after add(window, t, load) with k = floor(t/1000), the window holds
\* the buckets it held less exactly those b with k - b >= sizeSeconds, plus
\* bucket k; every bucket other than k is as it was; bucket k has load and 1
\* more than before (than 0 if it was absent); and the totals are the old
\* totals less the sums and counts of the removed buckets plus load and 1.
C37_AddEvictsThenUpserts ==
    ~IsNull(sm.last) =>
        LET old == Val(sm.last).before
            load == Val(sm.last).load
            k == LastSecond
            removed == SizeOlder(old, k)
            had == k \in DOMAIN old.buckets
        IN /\ DOMAIN sm.window.buckets = ((DOMAIN old.buckets) \ removed) \cup {k}
           /\ \A b \in DOMAIN sm.window.buckets :
                    b # k => sm.window.buckets[b] = old.buckets[b]
           /\ sm.window.buckets[k] =
                    [timestamp |-> k,
                     sum |-> (IF had THEN old.buckets[k].sum ELSE 0) + load,
                     count |-> (IF had THEN old.buckets[k].count ELSE 0) + 1]
           /\ sm.window.totalSum =
                    old.totalSum
                    - SumOf([b \in removed |-> old.buckets[b].sum], removed) + load
           /\ sm.window.totalCount =
                    old.totalCount
                    - SumOf([b \in removed |-> old.buckets[b].count], removed) + 1

\* A 60 s window holding seconds 0 and 1 took an event of second 60 with
\* load 1.0: the bucket exactly 60 s older is gone, the one 59 s older is
\* kept, and the totals follow.
C37_Witness ==
    /\ sm.size = 60
    /\ ~IsNull(sm.last)
    /\ LastSecond = 60
    /\ Val(sm.last).load = 100
    /\ DOMAIN Val(sm.last).before.buckets = {0, 1}
    /\ Val(sm.last).before.buckets[0].sum = 100
    /\ DOMAIN sm.window.buckets = {1, 60}
    /\ sm.window.totalCount = 2
    /\ sm.window.totalSum = Val(sm.last).before.totalSum

\* C38: the processor with producer, Redis writer and metrics keeps every
\* zone's state, timers, windows and lastAlertTimestamp and the locally
\* emitted alerts equal to those of the console-only processor fed the same
\* events, whatever publishes and writes fail; while an alert publish is
\* awaited it lacks only what follows the publish: the emitted alert, the
\* alert timestamp and the state update of the event in flight.
C38_SameAsConsoleOnly ==
    /\ pc \in {"idle", "hset", "geoadd"} =>
            /\ zoneStates = replay.zoneStates
            /\ alertLog = replay.alerts
    /\ pc = "publish" =>
            /\ replay.alerts = Append(alertLog, AlertOf(cur))
            /\ replay.zoneStates =
                    [zoneStates EXCEPT
                        ![cur.zoneId].lastAlertTimestamp = Some(cur.eventTimestamp),
                        ![cur.zoneId].currentState = cur.nextState]

\* Both publishes and both store writes of the run failed, and the zone is
\* CRITICAL with two alerts emitted, as in the console-only processor.
C38_Witness ==
    /\ pc = "idle"
    /\ Len(alertLog) = 2
    /\ published = <<>>
    /\ redisHash = <<>>
    /\ \E z \in DOMAIN zoneStates :
            /\ zoneStates[z].currentState = "CRITICAL"
            /\ replay.zoneStates[z].currentState = "CRITICAL"

\* C39: after every call, criticalSince is non-nil only in STRESSED; in
\* NORMAL a non-nil stressedSince is the timestamp of a call made in NORMAL
\* since the zone last entered it; the call that enters NORMAL leaves both
\* timers nil; and a call that turns the zone STRESSED comes 60 000 ms or
\* more after one of those calls in NORMAL (or is itself that call).
C39_TimersMatchState ==
    /\ ~IsNull(sm.data.criticalSince) => sm.data.currentState = "STRESSED"
    /\ (sm.data.currentState = "NORMAL" /\ ~IsNull(sm.data.stressedSince)) =>
            Val(sm.data.stressedSince) \in sm.sinceNormal
    /\ ~IsNull(sm.last) =>
            LET call == Val(sm.last)
            IN /\ (call.before.currentState # "NORMAL"
                    /\ sm.data.currentState = "NORMAL") =>
                        /\ IsNull(sm.data.stressedSince)
                        /\ IsNull(sm.data.criticalSince)
               /\ (call.before.currentState = "NORMAL"
                    /\ sm.data.currentState = "STRESSED") =>
                        \E s \in call.sinceNormal \cup {call.timestamp} :
                            call.timestamp - s >= CONFIRMATION_STRESSED_MS

\* The zone has been CRITICAL, come back to NORMAL through STRESSED, and
\* has started a new confirmation from a call made in NORMAL.
C39_Witness ==
    /\ "CRITICAL" \in sm.visited
    /\ sm.data.currentState = "NORMAL"
    /\ ~IsNull(sm.last)
    /\ Val(sm.last).before.currentState = "NORMAL"
    /\ IsNull(Val(sm.last).before.stressedSince)
    /\ sm.data.stressedSince = Some(Val(sm.last).timestamp)

\* C40: for every zone with no event of its own in flight whose most recent
\* writeZoneState call returned without an error, the zone has a record and
\* the record's state is the zone's in-memory currentState.
C40_RecordMatchesMemoryAfterGoodWrite ==
    \A z \in WriteZones :
        ((pc = "idle" \/ cur.zoneId # z) /\ sm[z] = "ok") =>
            /\ z \in DOMAIN redisHash
            /\ redisHash[z].state = zoneStates[z].currentState

\* Z-1 is idle and CRITICAL in memory and in its record after a write that
\* succeeded, and the only alert ever published is the one of its earlier
\* change to STRESSED.
C40_Witness ==
    /\ pc = "idle"
    /\ sm["Z-1"] = "ok"
    /\ zoneStates["Z-1"].currentState = "CRITICAL"
    /\ redisHash["Z-1"].state = "CRITICAL"
    /\ Len(published) <= 1
    /\ \A i \in 1..Len(published) : published[i].currentState = "STRESSED"

====
